---- MODULE Spec2Model ----
(***************************************************************************)
(* Model of ai-builder-server (src/index.js).                              *)
(*                                                                         *)
(* Part 1: the stream endpoint  app.get('/api/stream')  (lines 1357-1748): *)
(*   one request, its push channel, its keep-alive timer, the two-stage    *)
(*   branch and the direct streaming branch with its retry loop.           *)
(* Part 2: the reference rewriter  updateHtmlResources  (lines 1039-1269), *)
(*   executed on markup held as a sequence of lexical tokens.              *)
(* Part 3: the planning functions (lines 103-627, 833-1036).               *)
(* Part 4: the store of Project and Page documents, the save endpoint      *)
(*   app.post('/api/save') (1755-1994) and the two preview endpoints       *)
(*   (1997-2156, 2158-2424).                                               *)
(* Part 5: the success branch of the two-stage path (1468-1491), which     *)
(*   cuts the assembled document into content deltas.                      *)
(* Part 6: save requests to one project served concurrently, interleaved   *)
(*   at their awaits (1816, 1958, 1974).                                   *)
(* Part 7: the buffered relay variant of the stream endpoint               *)
(*   (src/unnamed/part_007, lines 62-271).                                 *)
(* Part 8: the batched logger DBLogger (src/unnamed/part_008).             *)
(***************************************************************************)
EXTENDS Integers, Sequences, FiniteSets, TLC

VARIABLES
    pc,           \* position of the async handler: the await it is suspended at
    path,         \* "none" | "twoStage" | "direct": the branch taken at line 1436
    frames,       \* every frame handed to res.write, in order (sendEvent/sendMessage)
    timerActive,  \* pingInterval is set and not yet cleared
    headersSent,  \* res.headersSent
    ended,        \* res.end() has been called
    destroyed,    \* the client's close event has fired (res.destroyed)
    stream,       \* "null" | "open": the local `stream` of the retry loop
    retryCount,   \* the local `retryCount`
    calls,        \* generation-service calls started (anthropic.messages.create)
    attempts,     \* outcomes of the generation-service calls that have returned
    waits,        \* delays (ms) of the backoff timers started, in order
    tokenCount,   \* the local `tokenCount`: content deltas forwarded
    chunksSeen,   \* upstream chunks delivered to the for-await loop
    rwIn,         \* rewriter: the input record of the current run
    rwOut,        \* rewriter: results of the current run
    planIn,       \* planning: the arguments and service replies of the current call
    planOut,      \* planning: the outcome of the current call
    projects,     \* the Project collection: a set of documents
    pageDocs,     \* the Page collection: a set of documents
    last,         \* the request served last and the response it got
    saves,        \* save requests served so far
    finalHTML,    \* two-stage success branch: the assembled document (result.html)
    contents,     \* two-stage success branch: the content fields of the deltas sent
    streamed,     \* two-stage success branch: the document has been streamed
    handlers,     \* concurrent save requests: each handler's position and locals
    version,      \* concurrent save requests: the version key (__v) of the project
    upstream,     \* buffered relay: the upstream body, its state and the deltas it delivered
    lineBuffer,   \* buffered relay: the local `buffer`, an incomplete upstream line
    chunkBuffer,  \* buffered relay: the local `chunkBuffer`, text pieces not yet sent
    chunkTimer,   \* buffered relay: "null" | "pending", the flush timer
    written,      \* buffered relay: the calls made on the response, in order
    logQueue,     \* logger: this.logQueue, the entries waiting for a flush
    isConnected,  \* logger: this.isConnected
    flights,      \* logger: the batches of the insertMany calls in flight
    persisted,    \* logger: the entries in the log collection
    accepted      \* logger: the number of entries log has accepted

streamVars == <<pc, path, frames, timerActive, headersSent, ended, destroyed,
                stream, retryCount, calls, attempts, waits, tokenCount, chunksSeen>>
rwVars == <<rwIn, rwOut>>
planVars == <<planIn, planOut>>
storeVars == <<projects, pageDocs, last, saves>>
chunkVars == <<finalHTML, contents, streamed>>
concVars == <<handlers, version>>
relayVars == <<upstream, lineBuffer, chunkBuffer, chunkTimer, written>>
logVars == <<logQueue, isConnected, flights, persisted, accepted>>
sideVars == <<chunkVars, concVars, relayVars, logVars>>
vars == <<streamVars, rwVars, planVars, storeVars, sideVars>>

\* no request served yet, nothing stored
NoRequest == [op |-> "none"]
StoreIdle == projects = {} /\ pageDocs = {} /\ last = NoRequest /\ saves = 0

\* no document assembled, nothing streamed
ChunkIdle == finalHTML = <<>> /\ contents = <<>> /\ streamed = FALSE
\* no concurrent save request
ConcIdle == handlers = <<>> /\ version = 0
\* no request to the buffered relay
NoLine == [line |-> "none"]
RelayIdle ==
    /\ upstream = [state |-> "none", sent |-> 0, deltas |-> <<>>, done |-> FALSE]
    /\ lineBuffer = NoLine
    /\ chunkBuffer = <<>>
    /\ chunkTimer = "null"
    /\ written = <<>>
\* the logger after its constructor (part_008, 5-19)
LoggerNew ==
    /\ logQueue = <<>>
    /\ isConnected = FALSE
    /\ flights = {}
    /\ persisted = {}
    /\ accepted = 0
SideIdle == ChunkIdle /\ ConcIdle /\ RelayIdle /\ LoggerNew

(***************************************************************************)
(* Bounds of the model                                                     *)
(***************************************************************************)
MaxPings == 2
MaxChunks == 3
MaxContext == 2     \* links of the navigation bar around the attribute under rewrite

(***************************************************************************)
(* Program constants                                                       *)
(***************************************************************************)
maxRetries == 3
BaseDelay == 3000

PlanTypes == {"", "multi", "long", "hierarchical", "single"}
IsModificationValues == {"false", "true"}
ReplyOutcomes == {"ok", "unparseable", "fail"}

RECURSIVE Count(_, _)
Count(s, x) ==
    IF s = <<>> THEN 0
    ELSE (IF Head(s) = x THEN 1 ELSE 0) + Count(Tail(s), x)

(***************************************************************************)
(* The channel helpers of the handler                                      *)
(***************************************************************************)
\* sendEvent (1397-1403): res.write inside try/catch; no test of the channel
sendEvent(fr, data) == Append(fr, data)

\* sendMessage (1405-1411): res.write inside try/catch; no test of the channel
sendMessage(fr, content) == Append(fr, content)

\* cleanup (1419-1424), first statement: clearInterval(pingInterval)
cleanupTimerLeak(t) == t
cleanupTimer(t) == FALSE

\* cleanup (1419-1424), second statement: if (!res.headersSent) res.end()
cleanupEnded(hs, e) == IF ~hs THEN TRUE ELSE e

\* the loop's test of the channel (1698): res.destroyed || !res.writable
channelGone == destroyed \/ ended

(***************************************************************************)
(* Frames written on the three ways out of the handler                     *)
(***************************************************************************)
\* inner catch of the two-stage branch (1495-1502): plan_error event, sentinel
twoStageCatch(fr) == sendMessage(sendEvent(fr, "plan_error"), "DONE")

\* after the for-await loop (1727-1734): completion event, sentinel
finishFramesNoDone(fr) == sendEvent(fr, "completion")
finishFrames(fr) == sendMessage(sendEvent(fr, "completion"), "DONE")

\* outer catch (1737-1747): error event, cleanup(), sentinel
catchFramesSentinelFirst(fr) == sendEvent(sendMessage(fr, "DONE"), "error")
catchFrames(fr) == sendMessage(sendEvent(fr, "error"), "DONE")

\* the delay of the backoff timer (1685): 3000 * retryCount
backoffDelayFlat(rc) == BaseDelay
backoffDelay(rc) == BaseDelay * rc

\* the retry loop's test after a failed attempt (1683): retryCount < maxRetries
mayRetryOneMore(rc) == rc <= maxRetries
mayRetry(rc) == rc < maxRetries

\* the while test of the retry loop (1666): retryCount < maxRetries && !stream
loopTest(rc, st) == rc < maxRetries /\ st = "null"

(***************************************************************************)
(* Initial state: no request yet                                           *)
(***************************************************************************)
StreamInit ==
    /\ pc = "idle"
    /\ path = "none"
    /\ frames = <<>>
    /\ timerActive = FALSE
    /\ headersSent = FALSE
    /\ ended = FALSE
    /\ destroyed = FALSE
    /\ stream = "null"
    /\ retryCount = 0
    /\ calls = 0
    /\ attempts = <<>>
    /\ waits = <<>>
    /\ tokenCount = 0
    /\ chunksSeen = 0

(***************************************************************************)
(* app.get('/api/stream'): from the request to the first await.            *)
(* writeHead (1390), setInterval (1417), req.on('close') (1426), then      *)
(* either the two-stage branch (1436): stage-1 progress frame (759, 1450)  *)
(* and the needs-analysis call (267), or the direct branch: the first      *)
(* attempt of the retry loop (1666-1668).                                  *)
(***************************************************************************)
StreamRequest(planType, isModification) ==
    /\ pc = "idle"
    /\ headersSent' = TRUE
    /\ timerActive' = TRUE
    /\ calls' = calls + 1
    /\ IF planType = "" /\ isModification = "false"
       THEN /\ path' = "twoStage"
            /\ frames' = sendMessage(frames, "stage1")
            /\ pc' = "needsCall"
       ELSE /\ path' = "direct"
            /\ frames' = frames
            /\ pc' = "create"
    /\ UNCHANGED <<ended, destroyed, stream, retryCount, attempts, waits,
                   tokenCount, chunksSeen>>
    /\ UNCHANGED <<rwVars, planVars, storeVars, sideVars>>

(***************************************************************************)
(* The needs-analysis call returns (executeTwoStagePlan 760-829).          *)
(* A failed call or an unparseable reply gives success:false (292-297) and *)
(* the throw of line 763.  A parsed reply reaches line 767, which reads    *)
(* the identifier imageResults; the module declares no such binding, so    *)
(* the read throws.  Every outcome therefore lands in the catch of 823,    *)
(* the result is success:false, line 1493 throws, and the inner catch      *)
(* (1495-1502) writes the error event and the sentinel; cleanup() (1504).  *)
(***************************************************************************)
NeedsReply(outcome) ==
    /\ pc = "needsCall"
    /\ attempts' = Append(attempts, outcome)
    /\ frames' = twoStageCatch(frames)
    /\ timerActive' = cleanupTimer(timerActive)
    /\ ended' = cleanupEnded(headersSent, ended)
    /\ pc' = "done"
    /\ UNCHANGED <<path, headersSent, destroyed, stream, retryCount, calls,
                   waits, tokenCount, chunksSeen>>
    /\ UNCHANGED <<rwVars, planVars, storeVars, sideVars>>

(***************************************************************************)
(* Retry loop (1662-1690)                                                  *)
(***************************************************************************)
\* messages.create resolves: stream set, break, status event (1695), loop entered
CreateOk ==
    /\ pc = "create"
    /\ attempts' = Append(attempts, "ok")
    /\ stream' = "open"
    /\ frames' = sendEvent(frames, "status")
    /\ pc' = "streaming"
    /\ UNCHANGED <<path, timerActive, headersSent, ended, destroyed, retryCount,
                   calls, waits, tokenCount, chunksSeen>>
    /\ UNCHANGED <<rwVars, planVars, storeVars, sideVars>>

\* messages.create rejects (1679-1689): count, then back off or rethrow to 1737
CreateFail ==
    /\ pc = "create"
    /\ attempts' = Append(attempts, "fail")
    /\ retryCount' = retryCount + 1
    /\ IF mayRetry(retryCount + 1)
       THEN /\ waits' = Append(waits, backoffDelay(retryCount + 1))
            /\ pc' = "backoff"
            /\ UNCHANGED <<frames, timerActive, ended>>
       ELSE /\ frames' = catchFrames(frames)
            /\ timerActive' = cleanupTimer(timerActive)
            /\ ended' = cleanupEnded(headersSent, ended)
            /\ pc' = "done"
            /\ waits' = waits
    /\ UNCHANGED <<path, headersSent, destroyed, stream, calls, tokenCount, chunksSeen>>
    /\ UNCHANGED <<rwVars, planVars, storeVars, sideVars>>

\* the backoff timer fires; the while test (1666) holds; the next attempt starts
\* (were the test false with no stream, line 1697 would iterate null and throw
\* into the outer catch)
BackoffDone ==
    /\ pc = "backoff"
    /\ IF loopTest(retryCount, stream)
       THEN /\ calls' = calls + 1
            /\ pc' = "create"
            /\ UNCHANGED <<frames, timerActive, ended>>
       ELSE /\ frames' = catchFrames(sendEvent(frames, "status"))
            /\ timerActive' = cleanupTimer(timerActive)
            /\ ended' = cleanupEnded(headersSent, ended)
            /\ pc' = "done"
            /\ calls' = calls
    /\ UNCHANGED <<path, headersSent, destroyed, stream,
                   retryCount, attempts, waits, tokenCount, chunksSeen>>
    /\ UNCHANGED <<rwVars, planVars, storeVars, sideVars>>

(***************************************************************************)
(* Streaming loop (1697-1720) and the code after it (1722-1735)            *)
(***************************************************************************)
ChunkTypes == {"content_block_delta", "other", "message_stop"}

\* the loop's guard on a chunk (1698-1701): break when the channel is gone
loopBreaks(gone) == gone

\* the next upstream chunk arrives
Chunk(type) ==
    /\ pc = "streaming"
    /\ chunksSeen < MaxChunks
    /\ chunksSeen' = chunksSeen + 1
    /\ IF loopBreaks(channelGone) \/ type = "message_stop"
       THEN \* break (1700 or 1718), then 1727-1735
            /\ frames' = finishFrames(frames)
            /\ timerActive' = cleanupTimer(timerActive)
            /\ ended' = cleanupEnded(headersSent, ended)
            /\ pc' = "done"
            /\ tokenCount' = tokenCount
       ELSE /\ IF type = "content_block_delta"
               THEN /\ frames' = sendEvent(frames, "delta")
                    /\ tokenCount' = tokenCount + 1
               ELSE /\ UNCHANGED <<frames, tokenCount>>
            /\ UNCHANGED <<timerActive, ended, pc>>
    /\ UNCHANGED <<path, headersSent, destroyed, stream, retryCount, calls,
                   attempts, waits>>
    /\ UNCHANGED <<rwVars, planVars, storeVars, sideVars>>

\* the upstream iterator is exhausted: the loop ends, then 1727-1735
StreamEnd ==
    /\ pc = "streaming"
    /\ frames' = finishFrames(frames)
    /\ timerActive' = cleanupTimer(timerActive)
    /\ ended' = cleanupEnded(headersSent, ended)
    /\ pc' = "done"
    /\ UNCHANGED <<path, headersSent, destroyed, stream, retryCount, calls,
                   attempts, waits, tokenCount, chunksSeen>>
    /\ UNCHANGED <<rwVars, planVars, storeVars, sideVars>>

\* the upstream iterator throws mid-stream: outer catch (1737-1747)
StreamThrow ==
    /\ pc = "streaming"
    /\ frames' = catchFrames(frames)
    /\ timerActive' = cleanupTimer(timerActive)
    /\ ended' = cleanupEnded(headersSent, ended)
    /\ pc' = "done"
    /\ UNCHANGED <<path, headersSent, destroyed, stream, retryCount, calls,
                   attempts, waits, tokenCount, chunksSeen>>
    /\ UNCHANGED <<rwVars, planVars, storeVars, sideVars>>

(***************************************************************************)
(* Events that interleave with the handler's awaits                        *)
(***************************************************************************)
\* the interval timer fires (1413-1417): sendPing
Ping ==
    /\ pc # "idle"
    /\ timerActive
    /\ Count(frames, "ping") < MaxPings
    /\ frames' = sendEvent(frames, "ping")
    /\ UNCHANGED <<pc, path, timerActive, headersSent, ended, destroyed, stream,
                   retryCount, calls, attempts, waits, tokenCount, chunksSeen>>
    /\ UNCHANGED <<rwVars, planVars, storeVars, sideVars>>

\* the client goes away: req 'close' handler (1426-1429) runs cleanup()
ClientClose ==
    /\ pc # "idle"
    /\ ~destroyed
    /\ destroyed' = TRUE
    /\ timerActive' = cleanupTimer(timerActive)
    /\ ended' = cleanupEnded(headersSent, ended)
    /\ UNCHANGED <<pc, path, frames, headersSent, stream, retryCount, calls,
                   attempts, waits, tokenCount, chunksSeen>>
    /\ UNCHANGED <<rwVars, planVars, storeVars, sideVars>>

StreamNext ==
    \/ \E pt \in PlanTypes, im \in IsModificationValues : StreamRequest(pt, im)
    \/ \E o \in ReplyOutcomes : NeedsReply(o)
    \/ CreateOk
    \/ CreateFail
    \/ BackoffDone
    \/ \E t \in ChunkTypes : Chunk(t)
    \/ StreamEnd
    \/ StreamThrow
    \/ Ping
    \/ ClientClose

NoRun == [state |-> "none"]

Init ==
    /\ StreamInit
    /\ rwIn = NoRun /\ rwOut = NoRun /\ planIn = NoRun /\ planOut = NoRun
    /\ StoreIdle
    /\ SideIdle
Next == StreamNext
Spec == Init /\ [][Next]_vars

(***************************************************************************)
(* Properties of the stream endpoint                                       *)
(***************************************************************************)
LastTwo(s) == IF Len(s) < 2 THEN <<>> ELSE SubSeq(s, Len(s) - 1, Len(s))

\* C1: on every exit path of a stream request the sentinel frame '[DONE]' is
\* handed to the channel exactly once: never twice at any time, and exactly
\* once when the handler has returned (two-stage failure, direct success, retry
\* exhaustion, an exception mid-stream, a client disconnect at any point).
C1_SentinelExactlyOnce ==
    /\ Count(frames, "DONE") <= 1
    /\ pc = "done" => Count(frames, "DONE") = 1

\* C1 witness: a direct stream whose client went away mid-stream has returned
C1_Witness ==
    /\ pc = "done" /\ path = "direct" /\ stream = "open" /\ destroyed
    /\ tokenCount > 0
    /\ Count(frames, "DONE") = 1

\* C2: when the handler has returned, the server has ended the response
\* (cleanup finalized the channel), on every exit path.
C2_ChannelEndedOnExit == pc = "done" => ended

\* C3: the keep-alive timer is cleared on every terminal transition (handler
\* returned, client disconnected), it is never set again, and once it is
\* cleared no further ping frame is written.
C3_TimerTornDown ==
    /\ []((pc = "done" \/ destroyed) => ~timerActive)
    /\ [][~timerActive /\ pc # "idle" =>
            /\ ~timerActive'
            /\ Count(frames', "ping") = Count(frames, "ping")]_vars

\* C3 witness: the timer fired at least once and the request has terminated
C3_Witness ==
    /\ pc = "done" /\ ~timerActive
    /\ Count(frames, "ping") > 0

\* C4: once the client's close event has fired, no frame is written to the
\* channel.
C4_NoWriteAfterClose == [][destroyed => frames' = frames]_vars

\* C5: once the client's disconnect has been observed, no further
\* generation-service call is started and no content of a call that was in
\* flight is forwarded.
C5_NoCallAfterClose ==
    [][destroyed =>
         /\ calls' = calls
         /\ Count(frames', "delta") = Count(frames, "delta")]_vars

\* C6: the direct stream attempts its generation call at most maxRetries (3)
\* times; a provider that fails exactly twice and then succeeds yields one
\* open stream with retryCount = 2; three consecutive failures end the request
\* terminally with no stream and no further attempt.
C6_RetryBound ==
    path = "direct" =>
        /\ calls <= maxRetries
        /\ attempts = <<"fail", "fail", "ok">> =>
              /\ retryCount = 2
              /\ stream = "open"
              /\ Count(frames, "status") = 1
        /\ attempts = <<"fail", "fail", "fail">> =>
              /\ retryCount = 3
              /\ stream = "null"
              /\ calls = 3
              /\ pc = "done"
        /\ Len(attempts) <= maxRetries

\* C6 witness: two failures, then a success
C6_Witness ==
    /\ path = "direct"
    /\ attempts = <<"fail", "fail", "ok">>
    /\ pc = "streaming"

\* C7: the wait before retry k is k times the base delay, no wait follows the
\* final failed attempt, and retry exhaustion is surfaced as exactly one error
\* frame followed by the sentinel.
C7_BackoffProportional ==
    /\ \A k \in 1..Len(waits) : waits[k] = k * BaseDelay
    /\ Len(waits) = (IF retryCount < maxRetries THEN retryCount ELSE maxRetries - 1)
    /\ retryCount = maxRetries =>
          /\ pc = "done"
          /\ Count(frames, "error") = 1
          /\ LastTwo(frames) = <<"error", "DONE">>

\* C7 witness: the retries are exhausted after waits of 1x and 2x the base delay
C7_Witness ==
    /\ retryCount = maxRetries
    /\ waits = <<BaseDelay, 2 * BaseDelay>>
    /\ pc = "done"

(***************************************************************************)
(* Part 2.  The reference rewriter  updateHtmlResources  (1039-1269).      *)
(*                                                                         *)
(* Markup is a sequence of lexical tokens: each punctuation character the  *)
(* patterns mention is a token of its own ( " ' = . / # : and the blank),  *)
(* and a maximal run of other characters is one word token.  The regular   *)
(* expressions of the source are executed on that sequence: a literal is   *)
(* matched token by token, a character class by the tokens it admits, and  *)
(* String.replace with the g flag by a left-to-right scan.                 *)
(***************************************************************************)
DQ == "\""
SQ == "'"
EOT == "<eot>"
Quotes == {DQ, SQ}

Tok(s, i) == IF i >= 1 /\ i <= Len(s) THEN s[i] ELSE EOT

\* String.prototype.toLowerCase on a word token (1049, 1094, 1123, 1164, 1178, 1197)
UpperToLower ==
    ("HREF" :> "href") @@ ("HTML" :> "html") @@ ("About" :> "about") @@
    ("ABOUT" :> "about") @@ ("Index" :> "index") @@ ("INDEX" :> "index") @@
    ("Contact" :> "contact") @@ ("ONCLICK" :> "onclick") @@ ("SRC" :> "src")
toLowerCase(t) == IF t \in DOMAIN UpperToLower THEN UpperToLower[t] ELSE t
LowerAll(s) == [k \in 1..Len(s) |-> toLowerCase(s[k])]

\* a literal of a pattern compiled with the i flag
Lit(t, word) == toLowerCase(t) = toLowerCase(word)

\* index of the first token from j on that is in `stop`, or Len(s) + 1
RECURSIVE RunEnd(_, _, _)
RunEnd(s, j, stop) ==
    IF j > Len(s) \/ s[j] \in stop THEN j ELSE RunEnd(s, j + 1, stop)

\* \s* : index of the first token from j on that is not a blank
RECURSIVE SkipWs(_, _)
SkipWs(s, j) == IF Tok(s, j) = " " THEN SkipWs(s, j + 1) ELSE j

Includes(s, t) == \E k \in 1..Len(s) : s[k] = t

Null == <<"<null>">>

\* rawPageNames (1048): plannedPages || pages.map(p => p.pageName || p.name)
rawPageNames(pages, plannedPages) ==
    IF plannedPages # Null THEN plannedPages ELSE pages

\* allPageNames (1049)
allPageNames(raw) == {toLowerCase(raw[k]) : k \in 1..Len(raw)}

\* pageNameMap (1050-1055): forEach assigns map[lower] = name, so a later
\* declaration overwrites an earlier one with the same lower-cased form
pageNameMapFirstWins(raw, lower) ==
    LET ks == {k \in 1..Len(raw) : raw[k] # "" /\ toLowerCase(raw[k]) = lower}
    IN  raw[CHOOSE k \in ks : \A j \in ks : k <= j]
pageNameMap(raw, lower) ==
    LET ks == {k \in 1..Len(raw) : raw[k] # "" /\ toLowerCase(raw[k]) = lower}
    IN  raw[CHOOSE k \in ks : \A j \in ks : j <= k]

\* allPageNames.includes(x) for a captured text x (a token sequence)
IsKnown(raw, x) == Len(x) = 1 /\ toLowerCase(x[1]) \in allPageNames(raw)

\* pageNameMap[lower] || pageName
originalPageName(raw, x) == pageNameMap(raw, toLowerCase(x[1]))

\* `/preview/${projectId}` and `/preview/${projectId}/${originalPageName}`
ProjectRoot(projectId) == <<"/", "preview", "/", projectId>>
PagePath(projectId, name) == ProjectRoot(projectId) \o <<"/", name>>

\* the target the link rules emit for a known page (1105-1110 and its copies)
targetNoIndexCase(projectId, raw, x) == PagePath(projectId, originalPageName(raw, x))
target(projectId, raw, x) ==
    IF toLowerCase(x[1]) = "index"
    THEN ProjectRoot(projectId)
    ELSE PagePath(projectId, originalPageName(raw, x))

HrefAttr(v) == <<"href", "=", DQ>> \o v \o <<DQ>>
OnclickAttr(v) ==
    <<"onclick", "=", DQ, "location", ".", "href", "=", SQ>> \o v \o <<SQ, DQ>>
WindowAssign(v) ==
    <<"window", ".", "location", ".", "href", " ", "=", " ", SQ>> \o v \o <<SQ>>

\* (?!\/preview\/) at position j
AtPreview(s, j) ==
    Tok(s, j) = "/" /\ Lit(Tok(s, j + 1), "preview") /\ Tok(s, j + 2) = "/"

\* https?:\/\/ at position j
AtHttp(s, j) ==
    /\ toLowerCase(Tok(s, j)) \in {"http", "https"}
    /\ Tok(s, j + 1) = ":" /\ Tok(s, j + 2) = "/" /\ Tok(s, j + 3) = "/"

\* href=["'] at position i
AtHrefEq(s, i) == Lit(Tok(s, i), "href") /\ Tok(s, i + 1) = "=" /\ Tok(s, i + 2) \in Quotes

NoQHS == {DQ, SQ, "#", "/"}     \* the complement of [^"'#/]

(***************************************************************************)
(* The patterns: the length of the match starting at token i, 0 for none   *)
(***************************************************************************)
\* 1084: new RegExp(`href=["']/preview/${projectId}/index["']`, 'gi')
Rule1LenAnyPage(s, i, projectId) ==
    IF /\ AtHrefEq(s, i)
       /\ AtPreview(s, i + 3)
       /\ Lit(Tok(s, i + 6), projectId)
       /\ Tok(s, i + 7) = "/"
       /\ Tok(s, i + 8) \notin Quotes \cup {EOT}
       /\ Tok(s, i + 9) \in Quotes
    THEN 10 ELSE 0
Rule1Len(s, i, projectId) ==
    IF /\ AtHrefEq(s, i)
       /\ AtPreview(s, i + 3)
       /\ Lit(Tok(s, i + 6), projectId)
       /\ Tok(s, i + 7) = "/"
       /\ Lit(Tok(s, i + 8), "index")
       /\ Tok(s, i + 9) \in Quotes
    THEN 10 ELSE 0

\* 1093: /href=["'](?!\/preview\/)([^"'#/]+)\.html["']/gi
Rule2Len(s, i) ==
    LET r == RunEnd(s, i + 3, NoQHS)
    IN  IF /\ AtHrefEq(s, i)
           /\ ~AtPreview(s, i + 3)
           /\ Tok(s, r) \in Quotes
           /\ r >= i + 6
           /\ Tok(s, r - 2) = "." /\ Lit(Tok(s, r - 1), "html")
        THEN r - i + 1 ELSE 0

\* 1115: /href=["'](?!\/preview\/)(\.\/|index)["']/gi
Rule3Len(s, i) ==
    IF AtHrefEq(s, i) /\ ~AtPreview(s, i + 3)
    THEN IF Tok(s, i + 3) = "." /\ Tok(s, i + 4) = "/" /\ Tok(s, i + 5) \in Quotes
         THEN 6
         ELSE IF Lit(Tok(s, i + 3), "index") /\ Tok(s, i + 4) \in Quotes
              THEN 5 ELSE 0
    ELSE 0

\* 1121: /href=["'](?!\/preview\/|https?:\/\/|\/|#)([^"'#/]+)["']/gi
Rule4Len(s, i) ==
    LET r == RunEnd(s, i + 3, NoQHS)
    IN  IF /\ AtHrefEq(s, i)
           /\ ~AtPreview(s, i + 3) /\ ~AtHttp(s, i + 3)
           /\ Tok(s, i + 3) \notin {"/", "#"}
           /\ Tok(s, r) \in Quotes
           /\ r >= i + 4
        THEN r - i + 1 ELSE 0

\* 1160: /onclick=["']location\.href=["']([^"']+)["']['"]?["']/gi
OnclickLen(s, i) ==
    LET r == RunEnd(s, i + 8, Quotes)
    IN  IF /\ Lit(Tok(s, i), "onclick") /\ Tok(s, i + 1) = "=" /\ Tok(s, i + 2) \in Quotes
           /\ Lit(Tok(s, i + 3), "location") /\ Tok(s, i + 4) = "."
           /\ AtHrefEq(s, i + 5)
           /\ r >= i + 9
           /\ Tok(s, r) \in Quotes
           /\ Tok(s, r + 1) \in Quotes
        THEN IF Tok(s, r + 2) \in Quotes THEN r + 2 - i + 1 ELSE r + 1 - i + 1
        ELSE 0

\* 1194: /window\.location\.href\s*=\s*["']([^"']+)["']/gi
WindowLen(s, i) ==
    LET e == SkipWs(s, i + 5)
        q == SkipWs(s, e + 1)
        r == RunEnd(s, q + 1, Quotes)
    IN  IF /\ Lit(Tok(s, i), "window") /\ Tok(s, i + 1) = "."
           /\ Lit(Tok(s, i + 2), "location") /\ Tok(s, i + 3) = "."
           /\ Lit(Tok(s, i + 4), "href")
           /\ Tok(s, e) = "="
           /\ Tok(s, q) \in Quotes
           /\ r >= q + 2
           /\ Tok(s, r) \in Quotes
        THEN r - i + 1 ELSE 0

\* 1215: /src=["'](\/images\/[^"']+)["']/gi
Image1Len(s, i) ==
    LET r == RunEnd(s, i + 6, Quotes)
    IN  IF /\ Lit(Tok(s, i), "src") /\ Tok(s, i + 1) = "=" /\ Tok(s, i + 2) \in Quotes
           /\ Tok(s, i + 3) = "/" /\ Lit(Tok(s, i + 4), "images") /\ Tok(s, i + 5) = "/"
           /\ r >= i + 7
           /\ Tok(s, r) \in Quotes
        THEN r - i + 1 ELSE 0

\* 1229: /src=["'](?!https?:\/\/|data:|\/)(images\/[^"']+)["']/gi
Image2Len(s, i) ==
    LET r == RunEnd(s, i + 5, Quotes)
    IN  IF /\ Lit(Tok(s, i), "src") /\ Tok(s, i + 1) = "=" /\ Tok(s, i + 2) \in Quotes
           /\ Lit(Tok(s, i + 3), "images") /\ Tok(s, i + 4) = "/"
           /\ r >= i + 6
           /\ Tok(s, r) \in Quotes
        THEN r - i + 1 ELSE 0

(***************************************************************************)
(* The replacement callbacks: the text that replaces the match m           *)
(***************************************************************************)
\* 1084-1091
Rule1Repl(m, projectId) == HrefAttr(ProjectRoot(projectId))

\* 1093-1113; pageName is the capture: m without href=" in front and .html" behind
Rule2ReplPassThrough(m, projectId, raw) == m
Rule2Repl(m, projectId, raw) ==
    LET pageName == SubSeq(m, 4, Len(m) - 3)
    IN  IF IsKnown(raw, pageName)
        THEN HrefAttr(target(projectId, raw, pageName))
        ELSE m

\* 1115-1119
Rule3Repl(m, projectId) == HrefAttr(ProjectRoot(projectId))

\* 1121-1152
shouldProcess(raw, pageName) ==
    /\ ~Includes(pageName, ".")
    /\ ~Includes(pageName, "/")
    /\ ~Includes(pageName, ":")
    /\ IsKnown(raw, pageName)
Rule4Repl(m, projectId, raw) ==
    LET pageName == SubSeq(m, 4, Len(m) - 1)
    IN  IF shouldProcess(raw, pageName)
        THEN HrefAttr(target(projectId, raw, pageName))
        ELSE m

\* url.endsWith('.html') (1162, 1195): case-sensitive
EndsWithDotHtml(url) ==
    Len(url) >= 2 /\ url[Len(url) - 1] = "." /\ url[Len(url)] = "html"

\* url.replace('.html', '') (1163, 1196): the first occurrence is removed
RECURSIVE RemoveFirstDotHtml(_)
RemoveFirstDotHtml(url) ==
    IF Len(url) < 2 THEN url
    ELSE IF url[1] = "." /\ url[2] = "html"
         THEN SubSeq(url, 3, Len(url))
         ELSE <<url[1]>> \o RemoveFirstDotHtml(Tail(url))

\* 1160-1191; url is the capture: from token 9 to the first quote
OnclickRepl(m, projectId, raw) ==
    LET url == SubSeq(m, 9, RunEnd(m, 9, Quotes) - 1)
    IN  IF EndsWithDotHtml(url)
        THEN LET pageName == RemoveFirstDotHtml(url)
             IN  IF IsKnown(raw, pageName)
                 THEN OnclickAttr(target(projectId, raw, pageName))
                 ELSE m
        ELSE IF /\ url[1] \notin {"http", "https"}      \* !url.startsWith('http')
                /\ ~Includes(url, ".")
                /\ ~Includes(url, "/")
                /\ IsKnown(raw, url)
             THEN OnclickAttr(target(projectId, raw, url))
             ELSE m

\* 1194-1210; url is the capture: between the first quote and the last token
WindowRepl(m, projectId, raw) ==
    LET url == SubSeq(m, RunEnd(m, 1, Quotes) + 1, Len(m) - 1)
    IN  IF EndsWithDotHtml(url)
        THEN LET pageName == RemoveFirstDotHtml(url)
             IN  IF IsKnown(raw, pageName)
                 THEN WindowAssign(target(projectId, raw, pageName))
                 ELSE m
        ELSE m

SrcAttr(v) == <<"src", "=", DQ>> \o v \o <<DQ>>
Picsum(w, h) == <<"https", ":", "/", "/", "picsum", ".", "photos", "/", w, "/", h>>
UiAvatar ==
    <<"https", ":", "/", "/", "ui-avatars", ".", "com", "/", "api", "/",
      "?name", "=", "User&size", "=", "100&background", "=", "random">>

\* 1215-1227; imagePath is the capture
Image1Repl(m) ==
    LET imagePath == SubSeq(m, 4, Len(m) - 1)
    IN  IF Includes(imagePath, "logo") THEN SrcAttr(Picsum("200", "60"))
        ELSE IF Includes(imagePath, "hero") \/ Includes(imagePath, "banner")
             THEN SrcAttr(Picsum("1200", "600"))
        ELSE IF \/ Includes(imagePath, "user") \/ Includes(imagePath, "avatar")
                \/ Includes(imagePath, "profile")
             THEN SrcAttr(UiAvatar)
        ELSE SrcAttr(Picsum("400", "300"))

\* 1229-1232
Image2Repl(m) == SrcAttr(Picsum("400", "300"))

(***************************************************************************)
(* String.replace(pattern, callback) with the g flag, one rule at a time   *)
(***************************************************************************)
MatchLen(rule, s, i, projectId) ==
    CASE rule = "index"   -> Rule1Len(s, i, projectId)
      [] rule = "html"    -> Rule2Len(s, i)
      [] rule = "home"    -> Rule3Len(s, i)
      [] rule = "bare"    -> Rule4Len(s, i)
      [] rule = "onclick" -> OnclickLen(s, i)
      [] rule = "window"  -> WindowLen(s, i)
      [] rule = "image1"  -> Image1Len(s, i)
      [] rule = "image2"  -> Image2Len(s, i)

Replacement(rule, m, projectId, raw) ==
    CASE rule = "index"   -> Rule1Repl(m, projectId)
      [] rule = "html"    -> Rule2Repl(m, projectId, raw)
      [] rule = "home"    -> Rule3Repl(m, projectId)
      [] rule = "bare"    -> Rule4Repl(m, projectId, raw)
      [] rule = "onclick" -> OnclickRepl(m, projectId, raw)
      [] rule = "window"  -> WindowRepl(m, projectId, raw)
      [] rule = "image1"  -> Image1Repl(m)
      [] rule = "image2"  -> Image2Repl(m)

RECURSIVE ReplaceFrom(_, _, _, _, _)
ReplaceFrom(rule, s, i, projectId, raw) ==
    IF i > Len(s) THEN <<>>
    ELSE LET n == MatchLen(rule, s, i, projectId)
         IN  IF n > 0
             THEN Replacement(rule, SubSeq(s, i, i + n - 1), projectId, raw)
                      \o ReplaceFrom(rule, s, i + n, projectId, raw)
             ELSE <<s[i]>> \o ReplaceFrom(rule, s, i + 1, projectId, raw)

\* the order in which the source applies its patterns:
\* linkReplacements (1082-1157), onclick (1160), window.location (1194),
\* imageReplacements (1213-1237)
RuleOrder ==
    <<"index", "html", "home", "bare", "onclick", "window", "image1", "image2">>

RECURSIVE ApplyRules(_, _, _, _)
ApplyRules(rules, s, projectId, raw) ==
    IF rules = <<>> THEN s
    ELSE ApplyRules(Tail(rules), ReplaceFrom(Head(rules), s, 1, projectId, raw),
                    projectId, raw)

\* JavaScript values other than markup that a caller can pass as html
JsNull == Null
JsUndefined == <<"<undefined>">>
JsZero == <<"<number>", "0">>
JsFive == <<"<number>", "5">>
JsObject == <<"<object>">>
NonStrings == {JsNull, JsUndefined, JsZero, JsFive, JsObject}

\* typeof html === 'string', and the truthiness of html (1041)
IsString(html) == html \notin NonStrings
Truthy(html) == html \notin {JsNull, JsUndefined, JsZero, <<>>}

\* the guard of 1041
invalidHtml(html) == ~Truthy(html) \/ ~IsString(html)

\* return html || '' (1043)
guardResultEmpty(html) == <<>>
guardResult(html) == IF Truthy(html) THEN html ELSE <<>>

\* the return statement reached: "invalid" is the guard's (1043), "caught" the
\* catch's (1267) after pages.map threw on a missing pages argument (1048 when
\* plannedPages is missing too, else 1061), "once" the normal one (1263)
exitPath(html, pages) ==
    IF invalidHtml(html) THEN "invalid"
    ELSE IF pages = Null THEN "caught"
    ELSE "once"

\* the level of the record the run leaves in the log: logger.warn (1042),
\* logger.error (1266), logger.info (1248)
logLevel(html, pages) ==
    CASE exitPath(html, pages) = "invalid" -> "warn"
      [] exitPath(html, pages) = "caught"  -> "error"
      [] exitPath(html, pages) = "once"    -> "info"

\* updateHtmlResources (1039-1269)
updateHtmlResources(html, projectId, currentPageName, pages, plannedPages) ==
    CASE exitPath(html, pages) = "invalid" -> guardResult(html)
      [] exitPath(html, pages) = "caught"  -> html
      [] exitPath(html, pages) = "once"    ->
            ApplyRules(RuleOrder, html, projectId, rawPageNames(pages, plannedPages))

(***************************************************************************)
(* Inputs of the rewriter: markup made of one attribute or script          *)
(* statement (the subject) amid up to MaxContext others, a project id, the *)
(* current page name and the page-name arguments.                          *)
(***************************************************************************)
ProjectIds == {"p1"}
CurrentPageNames == {"index", "about"}

MarkupNames == {"about", "About", "ABOUT", "index", "Index", "contact", "foo"}

LinkValues ==
    {<<n>> : n \in MarkupNames} \cup
    {<<n, ".", "html">> : n \in MarkupNames} \cup
    { <<".", "/">>,
      <<"#", "top">>,
      <<"http", ":", "/", "/", "x", ".", "com", "/", "about", ".", "html">>,
      <<"https", ":", "/", "/", "x", ".", "com">>,
      <<"/", "preview", "/", "p1">>,
      <<"/", "preview", "/", "p1", "/", "about">>,
      <<"/", "preview", "/", "p1", "/", "About">>,
      <<"/", "preview", "/", "p1", "/", "index">>,
      <<"/", "preview", "/", "p2", "/", "index">>,
      <<"/", "about">>,
      <<".", "/", "about", ".", "html">>,
      <<"about", "#", "team">>,
      <<"about", ".", "HTML">>,
      <<"about", ".", "php">>,
      <<"mailto", ":", "x">> }

ImageValues ==
    { <<"/", "images", "/", "logo", ".", "png">>,
      <<"/", "images", "/", "hero", ".", "jpg">>,
      <<"/", "images", "/", "avatar", ".", "png">>,
      <<"/", "images", "/", "team", ".", "png">>,
      <<"images", "/", "team", ".", "png">>,
      <<"https", ":", "/", "/", "x", ".", "com", "/", "images", "/", "a", ".", "png">>,
      <<"/", "img", "/", "a", ".", "png">> }

Other(q) == IF q = DQ THEN SQ ELSE DQ

\* the text of one attribute or script statement
ItemText(form, q, v) ==
    CASE form = "href"     -> <<"href", "=", q>> \o v \o <<q>>
      [] form = "HREF"     -> <<"HREF", "=", q>> \o v \o <<q>>
      [] form = "onclick"  -> <<"onclick", "=", Other(q), "location", ".", "href", "=", q>>
                                  \o v \o <<q, Other(q)>>
      [] form = "window"   -> <<"window", ".", "location", ".", "href", "=", q>>
                                  \o v \o <<q>>
      [] form = "windowSp" -> <<"window", ".", "location", ".", "href", " ", "=", " ", q>>
                                  \o v \o <<q>>
      [] form = "src"      -> <<"src", "=", q>> \o v \o <<q>>

SubjectItems ==
    {ItemText(f, q, v) : f \in {"href", "onclick", "window", "windowSp"},
                         q \in Quotes, v \in LinkValues} \cup
    {ItemText("HREF", DQ, v) : v \in LinkValues} \cup
    {ItemText("src", q, v) : q \in Quotes, v \in ImageValues}

\* the links of a navigation bar, in document order
NavBar ==
    << ItemText("href", DQ, <<"contact", ".", "html">>),
       ItemText("href", DQ, <<".", "/">>),
       ItemText("href", SQ, <<"About">>),
       ItemText("href", DQ, <<"/", "preview", "/", "p1", "/", "index">>),
       ItemText("href", DQ, <<"#", "top">>),
       ItemText("windowSp", SQ, <<"index", ".", "html">>) >>

RECURSIVE Join(_)
Join(items) ==
    IF items = <<>> THEN <<>>
    ELSE <<" ">> \o Head(items) \o Join(Tail(items))

\* the subject placed after the first p of the first n links of the bar
Placements == {pn \in (0..MaxContext) \X (0..MaxContext) :
                   pn[1] <= pn[2] /\ pn[2] <= Len(NavBar)}

Htmls ==
    {Join(SubSeq(NavBar, 1, pn[1])) \o <<" ">> \o subj
         \o Join(SubSeq(NavBar, pn[1] + 1, pn[2])) :
        subj \in SubjectItems, pn \in Placements}

\* (pages, plannedPages) arguments as the callers pass them
PageArgs ==
    { [pages |-> <<>>, plannedPages |-> <<"index", "about", "contact">>],
      [pages |-> <<"index", "About">>, plannedPages |-> Null],
      [pages |-> <<"index", "about">>, plannedPages |-> <<"index", "about", "About">>] }

\* calls with a missing pages argument, or with html that is not markup
MissingPageArgs ==
    { [pages |-> Null, plannedPages |-> Null],
      [pages |-> Null, plannedPages |-> <<"index", "about", "contact">>] }
PlainHtmls == {<<" ">> \o subj : subj \in SubjectItems}

RwInputs ==
    {[html |-> h, projectId |-> p, currentPageName |-> c,
      pages |-> a.pages, plannedPages |-> a.plannedPages] :
        h \in Htmls, p \in ProjectIds, c \in CurrentPageNames, a \in PageArgs}
    \cup
    {[html |-> h, projectId |-> p, currentPageName |-> c,
      pages |-> a.pages, plannedPages |-> a.plannedPages] :
        h \in NonStrings \cup {<<>>}, p \in ProjectIds, c \in CurrentPageNames,
        a \in PageArgs \cup MissingPageArgs}
    \cup
    {[html |-> h, projectId |-> p, currentPageName |-> c,
      pages |-> a.pages, plannedPages |-> a.plannedPages] :
        h \in PlainHtmls, p \in ProjectIds, c \in CurrentPageNames,
        a \in MissingPageArgs}

rewrite(in, h) ==
    updateHtmlResources(h, in.projectId, in.currentPageName, in.pages, in.plannedPages)

RwInit ==
    /\ StreamInit
    /\ rwIn \in RwInputs
    /\ rwOut = [state |-> "none", once |-> <<>>, twice |-> <<>>, log |-> "none"]
    /\ planIn = NoRun
    /\ planOut = NoRun
    /\ StoreIdle
    /\ SideIdle

\* the rewriter is run on the input (as /api/save does before storing)
Rewrite ==
    /\ rwOut.state = "none"
    /\ rwOut' = [state |-> exitPath(rwIn.html, rwIn.pages),
                 once |-> rewrite(rwIn, rwIn.html),
                 twice |-> <<>>,
                 log |-> logLevel(rwIn.html, rwIn.pages)]
    /\ UNCHANGED <<rwIn, streamVars, planVars, storeVars, sideVars>>

\* the rewriter is run on its own output (as the preview routes do on stored markup)
RewriteAgain ==
    /\ rwOut.state = "once"
    /\ rwOut' = [rwOut EXCEPT !.state = "twice", !.twice = rewrite(rwIn, rwOut.once)]
    /\ UNCHANGED <<rwIn, streamVars, planVars, storeVars, sideVars>>

RwNext == Rewrite \/ RewriteAgain
RewriteSpec == RwInit /\ [][RwNext]_vars

(***************************************************************************)
(* Properties of the rewriter                                              *)
(***************************************************************************)
\* the matches of /href=["']([^"']+)["']/gi, the pattern the source itself uses
\* to list a document's links (1071, 1241)
HrefLen(s, i) ==
    LET r == RunEnd(s, i + 3, Quotes)
    IN  IF AtHrefEq(s, i) /\ r >= i + 4 /\ Tok(s, r) \in Quotes THEN r - i + 1 ELSE 0

RECURSIVE HrefsFrom(_, _)
HrefsFrom(s, i) ==
    IF i > Len(s) THEN <<>>
    ELSE LET n == HrefLen(s, i)
         IN  IF n > 0 THEN <<SubSeq(s, i, i + n - 1)>> \o HrefsFrom(s, i + n)
             ELSE HrefsFrom(s, i + 1)
Hrefs(s) == HrefsFrom(s, 1)
HrefValue(m) == SubSeq(m, 4, Len(m) - 1)

\* navigation targets: the captures of /href\s*=\s*["']([^"']+)["']/gi, which
\* reads href attributes, onclick location.href handlers and window.location.href
\* assignments alike
NavLen(s, i) ==
    LET e == SkipWs(s, i + 1)
        q == SkipWs(s, e + 1)
        r == RunEnd(s, q + 1, Quotes)
    IN  IF /\ Lit(Tok(s, i), "href") /\ Tok(s, e) = "=" /\ Tok(s, q) \in Quotes
           /\ r >= q + 2 /\ Tok(s, r) \in Quotes
        THEN r - i + 1 ELSE 0

RECURSIVE NavTargetsFrom(_, _)
NavTargetsFrom(s, i) ==
    IF i > Len(s) THEN <<>>
    ELSE LET n == NavLen(s, i)
         IN  IF n > 0
             THEN LET m == SubSeq(s, i, i + n - 1)
                  IN  <<SubSeq(m, RunEnd(m, 1, Quotes) + 1, n - 1)>>
                          \o NavTargetsFrom(s, i + n)
             ELSE NavTargetsFrom(s, i + 1)
NavTargets(s) == NavTargetsFrom(s, 1)

RwRaw == rawPageNames(rwIn.pages, rwIn.plannedPages)

\* C8: the rewriter is idempotent: rewriting its own output changes nothing,
\* for every markup, project id, current page name and page-name arguments.
C8_Idempotent == rwOut.state = "twice" => rwOut.twice = rwOut.once

\* C8 witness: a run whose first pass did rewrite something, rewritten again
C8_Witness ==
    /\ rwOut.state = "twice"
    /\ rwOut.once # rwIn.html
    /\ \E k \in 1..Len(rwIn.html) : rwIn.html[k] = "onclick"

\* a page path /preview/{projectId}/{pageName}
IsPagePath(v, projectId) ==
    Len(v) = 6 /\ SubSeq(v, 1, 5) = ProjectRoot(projectId) \o <<"/">>

AbsoluteOrFragment(v) == AtHttp(v, 1) \/ Tok(v, 1) = "#"

\* C9, as stated: every href whose value is an absolute URL, a fragment-only
\* link, the project root /preview/{projectId} or a page path
\* /preview/{projectId}/{pageName} is byte-identical in the rewriter's output.
C9_NonInterferenceAsStated ==
    rwOut.state = "once" =>
        LET before == Hrefs(rwIn.html)
            after == Hrefs(rwOut.once)
        IN  /\ Len(after) = Len(before)
            /\ \A k \in 1..Len(before) :
                  LET v == HrefValue(before[k])
                  IN  (\/ AbsoluteOrFragment(v)
                       \/ v = ProjectRoot(rwIn.projectId)
                       \/ IsPagePath(v, rwIn.projectId))
                          => after[k] = before[k]

\* an href value the rewriter leaves alone: an absolute URL, a fragment-only
\* link, the project root, or a page path whose page name is not "index" in
\* any casing
Protected(v, projectId) ==
    \/ AbsoluteOrFragment(v)
    \/ v = ProjectRoot(projectId)
    \/ IsPagePath(v, projectId) /\ toLowerCase(v[6]) # "index"

\* C9, amended: every href whose value is an absolute URL, a fragment-only link,
\* the project root or a page path /preview/{projectId}/{pageName} with pageName
\* other than "index" (in any casing) is byte-identical in the rewriter's
\* output, and the output has as many hrefs as the input.
C9_NonInterference ==
    rwOut.state = "once" =>
        LET before == Hrefs(rwIn.html)
            after == Hrefs(rwOut.once)
        IN  /\ Len(after) = Len(before)
            /\ \A k \in 1..Len(before) :
                  Protected(HrefValue(before[k]), rwIn.projectId)
                      => after[k] = before[k]

\* C9 witness: a protected page path stands beside a link that the pass rewrote
C9_Witness ==
    /\ rwOut.state = "once"
    /\ rwOut.once # rwIn.html
    /\ \E k \in 1..Len(Hrefs(rwIn.html)) :
          LET v == HrefValue(Hrefs(rwIn.html)[k])
          IN  IsPagePath(v, rwIn.projectId) /\ Protected(v, rwIn.projectId)

\* C10: every navigation target (href attribute, onclick location.href handler,
\* window.location.href assignment) that is a known page name in any casing,
\* with no path separator, is rewritten to the canonical address of that page.
C10_Coverage ==
    rwOut.state = "once" =>
        LET before == NavTargets(rwIn.html)
            after == NavTargets(rwOut.once)
        IN  /\ Len(after) = Len(before)
            /\ \A k \in 1..Len(before) :
                  IsKnown(RwRaw, before[k]) =>
                      \/ /\ toLowerCase(before[k][1]) = "index"
                         /\ after[k] = ProjectRoot(rwIn.projectId)
                      \/ /\ toLowerCase(before[k][1]) # "index"
                         /\ \E j \in 1..Len(RwRaw) :
                               /\ toLowerCase(RwRaw[j]) = toLowerCase(before[k][1])
                               /\ after[k] = PagePath(rwIn.projectId, RwRaw[j])

(***************************************************************************)
(* C11: the link rules 1-3 on the hrefs of a document                      *)
(***************************************************************************)
\* an href value of the form X.html, X free of quotes, # and /
IsDotHtml(v) ==
    /\ Len(v) >= 3
    /\ v[Len(v) - 1] = "." /\ Lit(v[Len(v)], "html")
    /\ \A k \in 1..Len(v) : v[k] \notin NoQHS
DotHtmlName(v) == SubSeq(v, 1, Len(v) - 2)

\* the canonical address of the known page named by the one-token text x
IsCanonicalOf(v, projectId, raw, x) ==
    IF toLowerCase(x[1]) = "index"
    THEN v = ProjectRoot(projectId)
    ELSE \E j \in 1..Len(raw) :
            toLowerCase(raw[j]) = toLowerCase(x[1]) /\ v = PagePath(projectId, raw[j])

IsHomeToken(v) == v = <<".", "/">>
IsMalformedIndex(v, projectId) ==
    IsPagePath(v, projectId) /\ toLowerCase(v[6]) = "index"

\* what rules 1-3 promise for the k-th href of the document
LinkRulesEffect(b, a, projectId, raw) ==
    LET v == HrefValue(b)
        w == HrefValue(a)
    IN  /\ IsDotHtml(v) /\ IsKnown(raw, DotHtmlName(v))
            => IsCanonicalOf(w, projectId, raw, DotHtmlName(v))
        /\ IsDotHtml(v) /\ ~IsKnown(raw, DotHtmlName(v)) => a = b
        /\ IsHomeToken(v) => w = ProjectRoot(projectId)
        /\ IsMalformedIndex(v, projectId) => w = ProjectRoot(projectId)

IsLinkRuleForm(v, projectId) ==
    IsDotHtml(v) \/ IsHomeToken(v) \/ IsMalformedIndex(v, projectId)

\* a bare token that rules 3 and 4 rewrite: index, or a known page name
IsBareTarget(v, raw) ==
    Len(v) = 1 /\ (toLowerCase(v[1]) = "index" \/ IsKnown(raw, v))

\* C11, as stated: X.html becomes the canonical address of X when X is a known
\* page and is unchanged when X is unknown, "./" and a malformed
\* /preview/P/index become /preview/P, and no other href of the document is
\* altered.
C11_LinkRulesAsStated ==
    rwOut.state = "once" =>
        LET before == Hrefs(rwIn.html)
            after == Hrefs(rwOut.once)
        IN  /\ Len(after) = Len(before)
            /\ \A k \in 1..Len(before) :
                  /\ LinkRulesEffect(before[k], after[k], rwIn.projectId, RwRaw)
                  /\ ~IsLinkRuleForm(HrefValue(before[k]), rwIn.projectId)
                        => after[k] = before[k]

\* C11, amended: X.html becomes the canonical address of X when X is a known
\* page and is unchanged when X is unknown, "./" and a malformed
\* /preview/P/index become /preview/P, and every other href that is neither the
\* bare token index nor a bare known page name is unaltered.
C11_LinkRules ==
    rwOut.state = "once" =>
        LET before == Hrefs(rwIn.html)
            after == Hrefs(rwOut.once)
        IN  /\ Len(after) = Len(before)
            /\ \A k \in 1..Len(before) :
                  /\ LinkRulesEffect(before[k], after[k], rwIn.projectId, RwRaw)
                  /\ (~IsLinkRuleForm(HrefValue(before[k]), rwIn.projectId)
                        /\ ~IsBareTarget(HrefValue(before[k]), RwRaw))
                        => after[k] = before[k]

\* C11 witness: a document with a known X.html link and a "./" link, rewritten
C11_Witness ==
    /\ rwOut.state = "once"
    /\ \E k \in 1..Len(Hrefs(rwIn.html)) :
          LET v == HrefValue(Hrefs(rwIn.html)[k])
          IN  IsDotHtml(v) /\ IsKnown(RwRaw, DotHtmlName(v))
    /\ \E k \in 1..Len(Hrefs(rwIn.html)) : IsHomeToken(HrefValue(Hrefs(rwIn.html)[k]))
    /\ \E k \in 1..Len(Hrefs(rwIn.html)) :
          LET v == HrefValue(Hrefs(rwIn.html)[k])
          IN  IsDotHtml(v) /\ ~IsKnown(RwRaw, DotHtmlName(v))


(***************************************************************************)
(* C12: inline onclick handlers                                            *)
(***************************************************************************)
\* the tokens of s from position j on are those of lit
At(s, j, lit) == \A k \in 1..Len(lit) : Tok(s, j + k - 1) = lit[k]

\* sub occurs in s as a contiguous run of tokens
Contains(s, sub) == \E i \in 1..Len(s) : At(s, i, sub)

\* the handlers onclick="location.href='X.html'" of s with X a known page:
\* the set of the targets X
KnownHtmlHandlers(s, raw) ==
    {<<s[j + 8]>> : j \in
        {j \in 1..Len(s) :
            /\ At(s, j, <<"onclick", "=", DQ, "location", ".", "href", "=", SQ>>)
            /\ At(s, j + 9, <<".", "html", SQ, DQ>>)
            /\ IsKnown(raw, <<Tok(s, j + 8)>>)}}

\* C12: an inline handler onclick="location.href='X.html'" with X a known page
\* is rewritten only by the onclick rule: the output holds
\* onclick="location.href='<canonical address of X>'" with its quoting intact,
\* the href-attribute rules not having matched inside it.
C12_OnclickQuotingIntact ==
    rwOut.state = "once" =>
        \A x \in KnownHtmlHandlers(rwIn.html, RwRaw) :
            \E j \in 1..Len(RwRaw) :
                LET v == IF toLowerCase(x[1]) = "index"
                         THEN ProjectRoot(rwIn.projectId)
                         ELSE PagePath(rwIn.projectId, RwRaw[j])
                IN  /\ toLowerCase(RwRaw[j]) = toLowerCase(x[1])
                    /\ Contains(rwOut.once, OnclickAttr(v))

(***************************************************************************)
(* C13: calls with input that is not markup, or without pages              *)
(***************************************************************************)
Malformed == invalidHtml(rwIn.html) \/ rwIn.pages = Null
Returned == rwOut.state \in {"invalid", "caught", "once"}

Declarations(raw, t) == {k \in 1..Len(raw) : toLowerCase(raw[k]) = toLowerCase(t)}
FirstDeclared(raw, t) ==
    raw[CHOOSE k \in Declarations(raw, t) : \A j \in Declarations(raw, t) : k <= j]
LastDeclared(raw, t) ==
    raw[CHOOSE k \in Declarations(raw, t) : \A j \in Declarations(raw, t) : j <= k]

\* an href whose value is a bare token naming a known page other than index
IsBarePage(v, raw) == Len(v) = 1 /\ IsKnown(raw, v) /\ toLowerCase(v[1]) # "index"

\* C14, as stated: the canonical link of a bare token that matches a known page
\* name case-insensitively carries the declared casing, and of two declarations
\* with the same lower-cased form the first declared one.
C14_DeclaredCasingFirst ==
    rwOut.state = "once" =>
        LET before == Hrefs(rwIn.html)
            after == Hrefs(rwOut.once)
        IN  \A k \in 1..Len(before) :
                IsBarePage(HrefValue(before[k]), RwRaw) =>
                    HrefValue(after[k]) =
                        PagePath(rwIn.projectId, FirstDeclared(RwRaw, HrefValue(before[k])[1]))

\* C14, amended: the canonical link of a bare token that matches a known page
\* name case-insensitively carries the declared casing, and of two declarations
\* with the same lower-cased form the last declared one.
C14_DeclaredCasingLast ==
    rwOut.state = "once" =>
        LET before == Hrefs(rwIn.html)
            after == Hrefs(rwOut.once)
        IN  \A k \in 1..Len(before) :
                IsBarePage(HrefValue(before[k]), RwRaw) =>
                    HrefValue(after[k]) =
                        PagePath(rwIn.projectId, LastDeclared(RwRaw, HrefValue(before[k])[1]))

\* C14 witness: a bare token in a casing of its own, declared twice in two
\* other casings, was rewritten
C14_Witness ==
    /\ rwOut.state = "once"
    /\ \E k \in 1..Len(Hrefs(rwIn.html)) :
          LET v == HrefValue(Hrefs(rwIn.html)[k])
          IN  /\ IsBarePage(v, RwRaw)
              /\ FirstDeclared(RwRaw, v[1]) # LastDeclared(RwRaw, v[1])
              /\ v[1] \notin {FirstDeclared(RwRaw, v[1]), LastDeclared(RwRaw, v[1])}

(***************************************************************************)
(* Part 3.  Planning: structured output of the generation service.         *)
(*                                                                         *)
(* A reply text is a sequence of tokens: each of { } [ ] " \ : , blank and *)
(* newline is a token, a code fence (three backquotes) is one token, and a maximal run of *)
(* other characters is one word token.                                     *)
(***************************************************************************)
BS == "\\"
NL == "\n"
FENCE == "<fence>"
Blanks == {" ", NL}

\* index of the first token from j on that is not white space
RECURSIVE SkipBlanks(_, _)
SkipBlanks(s, j) == IF Tok(s, j) \in Blanks THEN SkipBlanks(s, j + 1) ELSE j

\* String.prototype.trim (111)
RECURSIVE TrimRight(_)
TrimRight(s) ==
    IF s # <<>> /\ s[Len(s)] \in Blanks THEN TrimRight(SubSeq(s, 1, Len(s) - 1)) ELSE s
trim(s) == TrimRight(SubSeq(s, SkipBlanks(s, 1), Len(s)))

(***************************************************************************)
(* JSON.parse: a recursive-descent reading of the JSON grammar.  A result  *)
(* is [ok, end, val]: end is the index after the value read, val the value *)
(* as [t |-> type, v |-> content]; an object's content is the sequence of  *)
(* its members [k |-> key, val |-> value] in source order.                 *)
(***************************************************************************)
JNothing == [t |-> "undefined", v |-> <<>>]
JFail == [ok |-> FALSE, end |-> 0, val |-> JNothing]
JOk(e, val) == [ok |-> TRUE, end |-> e, val |-> val]
JNumbers == {"0", "1", "2", "3", "2000"}
JLiterals == {"true", "false", "null"}
JEscapes == {DQ, BS, "/", "n", "t"}

\* a string: from the opening quote at i to its closing quote
RECURSIVE ParseChars(_, _, _)
ParseChars(s, j, acc) ==
    IF j > Len(s) \/ s[j] = NL THEN JFail
    ELSE IF s[j] = DQ THEN JOk(j + 1, [t |-> "string", v |-> acc])
    ELSE IF s[j] = BS
         THEN IF Tok(s, j + 1) \in JEscapes
              THEN ParseChars(s, j + 2, Append(acc, s[j + 1]))
              ELSE JFail
         ELSE ParseChars(s, j + 1, Append(acc, s[j]))
ParseString(s, i) == IF Tok(s, i) = DQ THEN ParseChars(s, i + 1, <<>>) ELSE JFail

RECURSIVE ParseValue(_, _)
RECURSIVE ParseMembers(_, _, _)
RECURSIVE ParseElements(_, _, _)

\* members of an object, i at the key of the next member
ParseMembers(s, i, acc) ==
    LET key == ParseString(s, i)
        c == SkipBlanks(s, key.end)
        val == ParseValue(s, SkipBlanks(s, c + 1))
        e == SkipBlanks(s, val.end)
        acc2 == Append(acc, [k |-> key.val.v, val |-> val.val])
    IN  IF ~key.ok \/ Tok(s, c) # ":" THEN JFail
        ELSE IF ~val.ok THEN JFail
        ELSE IF Tok(s, e) = "}" THEN JOk(e + 1, [t |-> "object", v |-> acc2])
        ELSE IF Tok(s, e) = "," THEN ParseMembers(s, SkipBlanks(s, e + 1), acc2)
        ELSE JFail

\* elements of an array, i at the next element
ParseElements(s, i, acc) ==
    LET val == ParseValue(s, i)
        e == SkipBlanks(s, val.end)
        acc2 == Append(acc, val.val)
    IN  IF ~val.ok THEN JFail
        ELSE IF Tok(s, e) = "]" THEN JOk(e + 1, [t |-> "array", v |-> acc2])
        ELSE IF Tok(s, e) = "," THEN ParseElements(s, SkipBlanks(s, e + 1), acc2)
        ELSE JFail

ParseValue(s, i) ==
    LET c == Tok(s, i)
        n == SkipBlanks(s, i + 1)
    IN  IF c = "{"
        THEN IF Tok(s, n) = "}" THEN JOk(n + 1, [t |-> "object", v |-> <<>>])
             ELSE ParseMembers(s, n, <<>>)
        ELSE IF c = "["
        THEN IF Tok(s, n) = "]" THEN JOk(n + 1, [t |-> "array", v |-> <<>>])
             ELSE ParseElements(s, n, <<>>)
        ELSE IF c = DQ THEN ParseString(s, i)
        ELSE IF c \in JNumbers THEN JOk(i + 1, [t |-> "number", v |-> <<c>>])
        ELSE IF c \in JLiterals THEN JOk(i + 1, [t |-> c, v |-> <<>>])
        ELSE JFail

\* JSON.parse(s): [ok, val]; ok = FALSE stands for the SyntaxError it throws
JSONparse(s) ==
    LET whole(r) == IF r.ok /\ SkipBlanks(s, r.end) > Len(s)
                    THEN [ok |-> TRUE, val |-> r.val]
                    ELSE [ok |-> FALSE, val |-> JNothing]
    IN  whole(ParseValue(s, SkipBlanks(s, 1)))

(***************************************************************************)
(* extractAndParseJSON (103-191).  A result is [ok, val, by]: by names the *)
(* return statement reached, "throw" the throw of 190.                     *)
(***************************************************************************)
Extracted(val, by) == [ok |-> TRUE, val |-> val, by |-> by]
NotExtracted == [ok |-> FALSE, val |-> JNothing, by |-> "throw"]

\* index of the first token t from j on, or 0
RECURSIVE IndexFrom(_, _, _)
IndexFrom(s, j, t) ==
    IF j > Len(s) THEN 0 ELSE IF s[j] = t THEN j ELSE IndexFrom(s, j + 1, t)
\* index of the last token t up to j, or 0
RECURSIVE LastIndexUpTo(_, _, _)
LastIndexUpTo(s, j, t) ==
    IF j < 1 THEN 0 ELSE IF s[j] = t THEN j ELSE LastIndexUpTo(s, j - 1, t)

\* 1. fenced code blocks (107-116): the matches of
\*    /```(?:json)?\s*\n?([\s\S]*?)\n?```/g from token i on, in order
RECURSIVE fencedBlock(_, _)
fencedBlock(text, i) ==
    LET open == IndexFrom(text, i, FENCE)
        body == IF Tok(text, open + 1) = "json" THEN open + 2 ELSE open + 1
        close == IndexFrom(text, body, FENCE)
        try(parsed) == IF parsed.ok THEN Extracted(parsed.val, "fence")
                       ELSE fencedBlock(text, close + 1)
    IN  IF open = 0 \/ close = 0 THEN NotExtracted
        ELSE try(JSONparse(trim(SubSeq(text, body, close - 1))))

\* 2. the brace-depth scan (119-165); startIndex 0 stands for -1
RECURSIVE braceScan(_, _, _, _, _, _)
braceScan(text, i, depth, startIndex, inString, escapeNext) ==
    IF i > Len(text) THEN NotExtracted
    ELSE LET char == text[i]
             inStr == IF ~escapeNext /\ char = DQ /\ (i = 1 \/ text[i - 1] # BS)
                      THEN ~inString ELSE inString
             try(parsed) == IF parsed.ok THEN Extracted(parsed.val, "scan")
                            ELSE braceScan(text, i + 1, depth - 1, 0, inStr, FALSE)
         IN  IF escapeNext
             THEN braceScan(text, i + 1, depth, startIndex, inStr, FALSE)
             ELSE IF char = BS
             THEN braceScan(text, i + 1, depth, startIndex, inStr, TRUE)
             ELSE IF ~inStr /\ char = "{"
             THEN braceScan(text, i + 1, depth + 1,
                            IF depth = 0 THEN i ELSE startIndex, inStr, FALSE)
             ELSE IF ~inStr /\ char = "}"
             THEN IF depth - 1 = 0 /\ startIndex # 0
                  THEN try(JSONparse(SubSeq(text, startIndex, i)))
                  ELSE braceScan(text, i + 1, depth - 1, startIndex, inStr, FALSE)
             ELSE braceScan(text, i + 1, depth, startIndex, inStr, FALSE)

\* 3. and 4. text.match(/\{[\s\S]*\}/) and text.match(/\[[\s\S]*\]/) (168-187):
\*    from the first opening token to the last closing one
greedyPair(text, open, close, by) ==
    LET f == IndexFrom(text, 1, open)
        l == LastIndexUpTo(text, Len(text), close)
        try(parsed) == IF parsed.ok THEN Extracted(parsed.val, by) ELSE NotExtracted
    IN  IF f = 0 \/ l < f THEN NotExtracted
        ELSE try(JSONparse(SubSeq(text, f, l)))

strategy(n, text) ==
    CASE n = 1 -> fencedBlock(text, 1)
      [] n = 2 -> braceScan(text, 1, 0, 0, FALSE, FALSE)
      [] n = 3 -> greedyPair(text, "{", "}", "greedy")
      [] n = 4 -> greedyPair(text, "[", "]", "array")

\* the order of the strategies in the function body
strategyOrderScanLast == <<1, 3, 4, 2>>
strategyOrder == <<1, 2, 3, 4>>

RECURSIVE firstSuccess(_, _)
firstSuccess(order, text) ==
    LET try(result) == IF result.ok THEN result ELSE firstSuccess(Tail(order), text)
    IN  IF order = <<>> THEN NotExtracted ELSE try(strategy(Head(order), text))

extractAndParseJSON(text) == firstSuccess(strategyOrder, text)

(***************************************************************************)
(* Reply texts given to extractAndParseJSON: a body, bare or in a code     *)
(* fence, between a prefix and a suffix                                    *)
(***************************************************************************)
Str(w) == <<DQ>> \o w \o <<DQ>>
Member(key, v) == Str(<<key>>) \o <<":">> \o v
Obj(members) == <<"{">> \o members \o <<"}">>

JsonBodies ==
    { Obj(Member("a", <<"1">>)),
      Obj(Member("a", Str(<<"{">>))),
      Obj(Member("a", Str(<<"}">>))),
      Obj(Member("a", Str(<<"x", "{", "y", "}">>))),
      Obj(Member("a", Str(<<BS, DQ>>))),
      Obj(Member("a", Str(<<"x", BS, DQ, "}">>))),
      Obj(Member("a", Str(<<BS, BS>>))),
      Obj(Member("a", Str(<<"x", BS, BS>>)) \o <<",">> \o Member("b", <<"2">>)),
      Obj(Member("a", Obj(Member("b", <<"1">>)))),
      Obj(<<" ">> \o Member("a", <<"[", "1", ",", "2", "]">>) \o <<NL>>),
      <<"[", "1", ",", "2", "]">>,
      <<"[">> \o Obj(Member("a", <<"1">>)) \o <<"]">> }

BrokenBodies ==
    { <<"{", "a", "}">>,
      <<"{">> \o Member("a", <<>>) \o <<"}">>,
      <<"{">> \o Member("a", <<"1">>),
      <<"[", "1", ",", "]">>,
      <<"plain", " ", "text">> }

Fenced(tag, body) == <<FENCE>> \o tag \o <<NL>> \o body \o <<NL, FENCE>>
Wrappings(body) == {body, Fenced(<<>>, body), Fenced(<<"json">>, body)}

Prefixes ==
    { <<>>,
      <<"Here", " ", "it", " ", "is", ":", NL>>,
      <<"}", " ">>,
      <<"{", "note", "}", " ">>,
      <<"[", "draft", "]", " ">>,
      Fenced(<<>>, <<"npm", " ", "start">>) \o <<NL>> }
Suffixes ==
    { <<>>,
      <<NL, "Done", ".">>,
      <<" ", "}">>,
      <<NL>> \o Fenced(<<"json">>, Obj(Member("z", <<"0">>))) }

OneObjectTexts ==
    {pre \o w \o suf : pre \in Prefixes, suf \in Suffixes,
                       w \in UNION {Wrappings(b) : b \in JsonBodies \cup BrokenBodies}}
ExtractInputs == {[fn |-> "extractAndParseJSON", text |-> t] : t \in OneObjectTexts}

\* extractAndParseJSON is called on a reply text
Extract ==
    /\ planIn.fn = "extractAndParseJSON"
    /\ planOut.state = "none"
    /\ planOut' = [state |-> "extracted", result |-> extractAndParseJSON(planIn.text)]
    /\ UNCHANGED <<planIn, streamVars, rwVars, storeVars, sideVars>>

(***************************************************************************)
(* JavaScript values as JSON.parse builds them, and the accesses the       *)
(* planning code makes on them                                             *)
(***************************************************************************)
JStr(w) == [t |-> "string", v |-> w]
JTrue == [t |-> "true", v |-> <<>>]
JNum(n) == [t |-> "number", v |-> <<n>>]
JObj(members) == [t |-> "object", v |-> members]
JArr(elements) == [t |-> "array", v |-> elements]
KV(key, val) == [k |-> <<key>>, val |-> val]

\* o.key and o?.key: undefined when o has no such property; reading a property
\* of null or undefined throws a TypeError, which the callers test with Nullish
Nullish(x) == x.t \in {"null", "undefined"}
Get(o, key) ==
    IF o.t # "object" THEN JNothing
    ELSE LET ks == {i \in 1..Len(o.v) : o.v[i].k = <<key>>}
         IN  IF ks = {} THEN JNothing
             ELSE o.v[CHOOSE i \in ks : \A j \in ks : j <= i].val

\* o.key = val on an object: an existing property keeps its place
Put(o, key, val) ==
    IF \E i \in 1..Len(o.v) : o.v[i].k = <<key>>
    THEN JObj([i \in 1..Len(o.v) |->
                  IF o.v[i].k = <<key>> THEN KV(key, val) ELSE o.v[i]])
    ELSE JObj(Append(o.v, KV(key, val)))

IsStr(x, w) == x.t = "string" /\ x.v = w

(***************************************************************************)
(* createGenerationPlan (833-1036)                                         *)
(***************************************************************************)
\* the fallback plan of the catch (1023-1034)
defaultPlan(prompt) ==
    JObj(<< KV("type", JStr(<<"single">>)),
            KV("projectName", JStr(<<"Website">>)),
            KV("description", JStr(prompt)),
            KV("reason", JStr(<<"Default single page due to plan generation failure">>)),
            KV("estimatedTokens", JNum("2000")),
            KV("plan", JObj(<<KV("prompt", JStr(prompt))>>)) >>)

\* plan.plan?.pages?.length > 0 (908)
hasPages(plan) ==
    LET pages == Get(Get(plan, "plan"), "pages")
    IN  pages.t \in {"array", "string"} /\ Len(pages.v) > 0

\* p.pageName in pages.map(p => p.pageName) (912)
pageNameOf(p) == Get(p, "pageName")

\* the statements of 909-1013 throw a TypeError: pages is a string or its
\* first element a primitive (909, strict mode), an element is null (912), or
\* a page name other than 'index' has no charAt (943, 1000)
pinThrows(pages) ==
    \/ pages.t # "array"
    \/ pages.v[1].t # "object"
    \/ \E i \in 2..Len(pages.v) :
          \/ Nullish(pages.v[i])
          \/ pageNameOf(pages.v[i]).t # "string"

\* allPageNames.map(...).join(', ') (999-1002)
RECURSIVE navInstructions(_)
navInstructions(names) ==
    IF names = <<>> THEN <<>>
    ELSE (IF Head(names) = <<"index">> THEN <<"Home link: ./">>
          ELSE Head(names) \o <<" link: ">> \o Head(names))
         \o (IF Tail(names) = <<>> THEN <<>> ELSE <<",", " ">>)
         \o navInstructions(Tail(names))

\* `${page.prompt}` followed by the navigation and design instructions (1004-1013)
pagePrompt(page, names, index) ==
    LET own == IF Get(page, "prompt").t = "string"
               THEN Get(page, "prompt").v ELSE <<"undefined">>
    IN  JStr(own \o <<NL, "NAVIGATION LINKS:">> \o navInstructions(names)
                 \o <<NL, "Current page:">> \o pageNameOf(page).v
                 \o <<NL, "<designGuidelines>", NL>>
                 \o (IF index = 1 THEN <<"FIRST page">> ELSE <<"copy the index page">>))

\* 909-910: the first page is pinned
pinFirst(page) == Put(Put(page, "pageName", JStr(<<"index">>)), "isMainPage", JTrue)

\* 908-1017 on a plan of type multi with pages, when nothing throws
normalizeMulti(plan) ==
    LET raw == Get(Get(plan, "plan"), "pages").v
        pinned == [i \in 1..Len(raw) |-> IF i = 1 THEN pinFirst(raw[i]) ELSE raw[i]]
        names == [i \in 1..Len(raw) |-> pageNameOf(pinned[i]).v]
        pages == [i \in 1..Len(raw) |->
                     Put(pinned[i], "prompt", pagePrompt(pinned[i], names, i))]
        inner == Put(Get(plan, "plan"), "pages", JArr(pages))
    IN  Put(Put(plan, "plan", inner), "plannedPages",
            JArr([i \in 1..Len(raw) |-> JStr(names[i])]))

\* the catch (1019-1035)
catchPlanRethrow(prompt) == [path |-> "raised", plan |-> JNothing]
catchPlan(prompt) == [path |-> "fallback", plan |-> defaultPlan(prompt)]

\* reply: [kind |-> "failed"] when anthropic.messages.create rejects,
\* [kind |-> "empty"] when response.content is empty, else [kind |-> "text", text]
createGenerationPlan(prompt, reply) ==
    IF reply.kind # "text" THEN catchPlan(prompt)
    ELSE LET jsonMatch == greedyPair(reply.text, "{", "}", "greedy")
             plan == jsonMatch.val
         IN  IF ~jsonMatch.ok THEN catchPlan(prompt)
             ELSE IF IsStr(Get(plan, "type"), <<"multi">>) /\ hasPages(plan)
             THEN IF pinThrows(Get(Get(plan, "plan"), "pages"))
                  THEN catchPlan(prompt)
                  ELSE [path |-> "returned", plan |-> normalizeMulti(plan)]
             ELSE [path |-> "returned", plan |-> plan]

(***************************************************************************)
(* Planning replies given to createGenerationPlan                          *)
(***************************************************************************)
RECURSIVE Commas(_)
Commas(items) ==
    IF items = <<>> THEN <<>>
    ELSE Head(items) \o (IF Tail(items) = <<>> THEN <<>> ELSE <<",">>)
         \o Commas(Tail(items))
ObjOf(members) == Obj(Commas(members))
ArrOf(elements) == <<"[">> \o Commas(elements) \o <<"]">>

FirstPages ==
    { ObjOf(<<Member("pageName", Str(<<"home">>)), Member("isMainPage", <<"false">>)>>),
      ObjOf(<<Member("pageName", Str(<<"index">>)), Member("isMainPage", <<"true">>)>>),
      ObjOf(<<Member("title", Str(<<"Home">>))>>) }
About == ObjOf(<<Member("pageName", Str(<<"about">>)), Member("isMainPage", <<"true">>)>>)
Contact == ObjOf(<<Member("pageName", Str(<<"contact">>)), Member("prompt", Str(<<"Form">>))>>)
Untitled == ObjOf(<<Member("title", Str(<<"About">>))>>)
Numbered == ObjOf(<<Member("pageName", <<"1">>)>>)
LaterPages ==
    { <<>>, <<About>>, <<About, Contact>>, <<Untitled>>, <<About, Numbered>>,
      <<About, <<"null">> >> }

PlanOf(type, inner) ==
    ObjOf(<<Member("type", Str(<<type>>)), Member("plan", inner)>>)

PlanBodies ==
    {PlanOf("multi", ObjOf(<<Member("pages", ArrOf(<<f>> \o l))>>)) :
        f \in FirstPages, l \in LaterPages} \cup
    {PlanOf("long", ObjOf(<<Member("pages", ArrOf(<<f>>))>>)) : f \in FirstPages} \cup
    { PlanOf("multi", ObjOf(<<Member("pages", <<"[", "]">>)>>)),
      PlanOf("multi", ObjOf(<<Member("pages", Str(<<"home">>))>>)),
      PlanOf("multi", ObjOf(<<Member("pages",
                                     ArrOf(<<Str(<<"home">>), Str(<<"about">>)>>))>>)),
      PlanOf("multi", <<"null">>),
      ObjOf(<<Member("type", Str(<<"multi">>))>>),
      PlanOf("single", ObjOf(<<Member("prompt", Str(<<"One", " ", "page">>))>>)),
      <<"{", "}">> }

PlanPrefixes == {<<>>, <<"Plan", ":", NL>>, <<"}", " ">>}
PlanSuffixes == {<<>>, <<NL, "Done", ".">>}
PlanTexts ==
    {pre \o w \o suf : pre \in PlanPrefixes, suf \in PlanSuffixes,
                       w \in UNION {Wrappings(b) : b \in PlanBodies \cup BrokenBodies}}
Prompts == {<<"a", " ", "bakery", " ", "site">>, <<"blog", " ", "{", "5", " ", "pages", "}">>}
Replies ==
    {[kind |-> "failed", text |-> <<>>], [kind |-> "empty", text |-> <<>>]} \cup
    {[kind |-> "text", text |-> t] : t \in PlanTexts}
CreateInputs ==
    {[fn |-> "createGenerationPlan", prompt |-> p, reply |-> r] :
        p \in Prompts, r \in Replies}

\* createGenerationPlan is called and the service replies
CreatePlan ==
    /\ planIn.fn = "createGenerationPlan"
    /\ planOut.state = "none"
    /\ planOut' = [state |-> "planned",
                   result |-> createGenerationPlan(planIn.prompt, planIn.reply)]
    /\ UNCHANGED <<planIn, streamVars, rwVars, storeVars, sideVars>>

(***************************************************************************)
(* The architecture stage: createBaseArchitecture (403-456),               *)
(* createGlobalComponentDetails (459-509), createPageStructures (512-569)  *)
(* and createArchitecturePlanHierarchical (572-627).  A reply is           *)
(* [kind, text] as for createGenerationPlan.                               *)
(***************************************************************************)
\* response.content[0].text given to extractAndParseJSON inside a try
parsedReply(reply) ==
    IF reply.kind # "text" THEN NotExtracted ELSE extractAndParseJSON(reply.text)

\* createBaseArchitecture: [success, baseArchitecture]
createBaseArchitecture(reply) ==
    LET result(parsed) == [success |-> parsed.ok, baseArchitecture |-> parsed.val]
    IN  result(parsedReply(reply))

\* the placeholder pushed by the catch of the loop body (497-505)
placeholder(componentName) ==
    JObj(<< KV("name", JStr(componentName)),
            KV("description", JStr(componentName \o <<" ", "component">>)),
            KV("props", JObj(<<>>)),
            KV("styles", JObj(<<>>)) >>)

\* one pass of the loop body (463-506) for a component that could not be built
componentCatchSkip(components, componentName) == components
componentCatch(components, componentName) ==
    Append(components, placeholder(componentName))

\* the loop of createGlobalComponentDetails (462-507) over the names and the
\* replies to its sub-calls, in order
RECURSIVE componentLoop(_, _, _)
componentLoop(names, replies, components) ==
    IF names = <<>> THEN components
    ELSE LET push(component) ==
                 IF component.ok THEN Append(components, component.val)
                 ELSE componentCatch(components, Head(names).v)
         IN  componentLoop(Tail(names), Tail(replies), push(parsedReply(Head(replies))))

\* for (const componentName of baseArchitecture.globalComponents) throws a
\* TypeError unless the value is iterable
notIterable(baseArchitecture) ==
    Get(baseArchitecture, "globalComponents").t \notin {"array", "string"}

\* the values the for-of loop iterates: the elements of an array, the
\* characters of a string
iterated(x) == IF x.t = "string" THEN [i \in 1..Len(x.v) |-> JStr(<<x.v[i]>>)] ELSE x.v

createGlobalComponentDetails(baseArchitecture, replies) ==
    componentLoop(iterated(Get(baseArchitecture, "globalComponents")), replies, <<>>)

\* the fallback page of createPageStructures (556-567)
defaultPage(needsAnalysis) ==
    JObj(<< KV("name", JStr(<<"index">>)),
            KV("title", JStr(<<"Home">>)),
            KV("components", JArr(<<
                JObj(<< KV("type", JStr(<<"Hero">>)),
                        KV("props", JObj(<<KV("title", Get(needsAnalysis, "projectName"))>>)) >>),
                JObj(<< KV("type", JStr(<<"Features">>)),
                        KV("props", JObj(<<KV("features", Get(needsAnalysis, "features"))>>)) >>) >>)) >>)

\* the prompt template of createPageStructures (513-518) throws a TypeError:
\* needsAnalysis.features has no join, or baseArchitecture.layout is nullish
pagePromptThrows(baseArchitecture, needsAnalysis) ==
    \/ Get(needsAnalysis, "features").t # "array"
    \/ Nullish(Get(baseArchitecture, "layout"))

createPageStructures(needsAnalysis, reply) ==
    LET result(parsed) == IF parsed.ok THEN parsed.val ELSE defaultPage(needsAnalysis)
    IN  result(parsedReply(reply))

\* pagesResult.pages[0].components.map(c => c.type) (606) throws a TypeError
hierarchyThrows(page) ==
    \/ Nullish(page)
    \/ Get(page, "components").t # "array"
    \/ \E i \in 1..Len(Get(page, "components").v) : Nullish(Get(page, "components").v[i])

\* createArchitecturePlanHierarchical: [success, details, architecture]; details
\* is the local globalComponents, <<>> while it is not yet assigned
aborted(details) == [success |-> FALSE, details |-> details, architecture |-> JNothing]
createArchitecturePlanHierarchical(needsAnalysis, baseReply, componentReplies, pageReply) ==
    LET plan(baseResult, page) ==
            LET base == baseResult.baseArchitecture
                finish(globalComponents) ==
                    IF pagePromptThrows(base, needsAnalysis) \/ hierarchyThrows(page)
                    THEN aborted(globalComponents)
                    ELSE [success |-> TRUE,
                          details |-> globalComponents,
                          architecture |->
                              JObj(<< KV("layout", Put(IF Get(base, "layout").t = "object"
                                                           THEN Get(base, "layout") ELSE JObj(<<>>),
                                                           "responsive", JObj(<<>>))),
                                      KV("commonComponents", JArr(globalComponents)),
                                      KV("pages", JArr(<<page>>)),
                                      KV("componentHierarchy",
                                         JObj(<< KV("global", Get(base, "globalComponents")),
                                                 KV("pageSpecific",
                                                    JArr([i \in 1..Len(Get(page, "components").v) |->
                                                             Get(Get(page, "components").v[i], "type")])) >>)) >>)]
            IN  IF ~baseResult.success THEN aborted(<<>>)
                ELSE IF Nullish(base) \/ notIterable(base) THEN aborted(<<>>)
                ELSE finish(createGlobalComponentDetails(base, componentReplies))
    IN  plan(createBaseArchitecture(baseReply), createPageStructures(needsAnalysis, pageReply))

(***************************************************************************)
(* Calls of createArchitecturePlanHierarchical                             *)
(***************************************************************************)
MaxComponents == 2

ComponentNames == <<"Header", "Footer", "Navigation">>
Layout == Member("layout", ObjOf(<<Member("type", Str(<<"grid">>))>>))
Globals(n) ==
    Member("globalComponents", ArrOf([i \in 1..n |-> Str(<<ComponentNames[i]>>)]))

BaseReplies ==
    {[kind |-> "text", text |-> ObjOf(<<Layout, Globals(n)>>)] : n \in 0..MaxComponents}
    \cup
    { [kind |-> "text", text |-> ObjOf(<<Globals(1)>>)],
      [kind |-> "text", text |-> ObjOf(<<Layout>>)],
      [kind |-> "text", text |-> <<"no", " ", "idea">>],
      [kind |-> "failed", text |-> <<>>] }

ComponentReplies ==
    { [kind |-> "text", text |-> ObjOf(<<Member("name", Str(<<"Bar">>))>>)],
      [kind |-> "text", text |-> <<"}", " ">> \o ObjOf(<<Member("name", Str(<<"Bar">>))>>)],
      [kind |-> "text", text |-> <<"{", "name", ":", "Bar", "}">>],
      [kind |-> "text", text |-> <<"sorry">>],
      [kind |-> "empty", text |-> <<>>],
      [kind |-> "failed", text |-> <<>>] }

PageReplies ==
    { [kind |-> "text",
       text |-> ObjOf(<<Member("name", Str(<<"index">>)),
                        Member("components",
                               ArrOf(<<ObjOf(<<Member("type", Str(<<"Hero">>))>>)>>))>>)],
      [kind |-> "text", text |-> ObjOf(<<Member("name", Str(<<"index">>))>>)],
      [kind |-> "text", text |-> <<"sorry">>],
      [kind |-> "failed", text |-> <<>>] }

NeedsAnalyses ==
    { JObj(<< KV("projectName", JStr(<<"Shop">>)),
              KV("features", JArr(<<JStr(<<"cart">>)>>)) >>),
      JObj(<< KV("projectName", JStr(<<"Shop">>)) >>) }

\* the replies to the component sub-calls: one per possible request
ReplySeqs == [1..MaxComponents -> ComponentReplies]

ArchitectureInputs ==
    {[fn |-> "createArchitecturePlanHierarchical", needsAnalysis |-> n,
      baseReply |-> b, componentReplies |-> c, pageReply |-> g] :
        n \in NeedsAnalyses, b \in BaseReplies, c \in ReplySeqs, g \in PageReplies}

\* createArchitecturePlanHierarchical is called and the service replies to each
\* of its calls
ArchitecturePlan ==
    /\ planIn.fn = "createArchitecturePlanHierarchical"
    /\ planOut.state = "none"
    /\ planOut' = [state |-> "designed",
                   result |-> createArchitecturePlanHierarchical(
                                  planIn.needsAnalysis, planIn.baseReply,
                                  planIn.componentReplies, planIn.pageReply)]
    /\ UNCHANGED <<planIn, streamVars, rwVars, storeVars, sideVars>>

PlanInputs == ExtractInputs \cup CreateInputs \cup ArchitectureInputs

PlanInit ==
    /\ StreamInit
    /\ rwIn = NoRun /\ rwOut = NoRun
    /\ planIn \in PlanInputs
    /\ planOut = [state |-> "none"]
    /\ StoreIdle
    /\ SideIdle

PlanNext == Extract \/ CreatePlan \/ ArchitecturePlan
PlanSpec == PlanInit /\ [][PlanNext]_vars

(***************************************************************************)
(* Properties of extractAndParseJSON                                       *)
(***************************************************************************)
\* C16: the strategies are tried strictly in the order fenced code block,
\* brace-depth scan, greedy brace pair, bracket pair, and the result is that of
\* the first one that yields parseable JSON; a later strategy decides only if
\* every earlier one failed, and the call throws only if all four failed.
C16_FirstSuccessInOrder ==
    planOut.state = "extracted" =>
        LET text == planIn.text
            fence == fencedBlock(text, 1)
            scan == braceScan(text, 1, 0, 0, FALSE, FALSE)
            greedy == greedyPair(text, "{", "}", "greedy")
            array == greedyPair(text, "[", "]", "array")
            r == planOut.result
        IN  /\ fence.ok => r = fence
            /\ ~fence.ok /\ scan.ok => r = scan
            /\ ~fence.ok /\ ~scan.ok /\ greedy.ok => r = greedy
            /\ ~fence.ok /\ ~scan.ok /\ ~greedy.ok /\ array.ok => r = array
            /\ ~fence.ok /\ ~scan.ok /\ ~greedy.ok /\ ~array.ok => ~r.ok

\* C16 witness: a reply whose braces hold no JSON, neither for the scan nor for
\* the greedy pair, so that the bracket-pair strategy decided
C16_Witness ==
    /\ planOut.state = "extracted"
    /\ Includes(planIn.text, "{") /\ Includes(planIn.text, "}")
    /\ planOut.result.by = "array"

\* texts that hold exactly one JSON object: prose without braces, or a stray
\* closing brace, before it, and prose after it
ProsePrefixes == {<<>>, <<"Here", " ", "it", " ", "is", ":", NL>>, <<"}", " ">>}
ProseSuffixes == {<<>>, <<NL, "Done", ".">>}
ObjectBodies == {b \in JsonBodies : b[1] = "{"}

\* C17: from a text that holds one well-formed JSON object, the brace-depth scan
\* extracts exactly that object, whatever braces, escaped quotes and escaped
\* backslashes its string values hold, and also after a stray unmatched "}".
C17_ScanExtractsObject ==
    planOut.state = "extracted" =>
        \A pre \in ProsePrefixes, body \in ObjectBodies, suf \in ProseSuffixes :
            planIn.text = pre \o body \o suf =>
                /\ planOut.result.by = "scan"
                /\ planOut.result.val = JSONparse(body).val

(***************************************************************************)
(* Properties of createGenerationPlan                                      *)
(***************************************************************************)
\* the reply holds no parseable JSON: the service call failed, or no run of
\* tokens of the text from an opening brace or bracket to a closing one is a
\* JSON value
NoParseableJSON(reply) ==
    \/ reply.kind # "text"
    \/ \A i \in 1..Len(reply.text), j \in 1..Len(reply.text) :
          (i < j /\ reply.text[i] \in {"{", "["} /\ reply.text[j] \in {"}", "]"})
              => ~JSONparse(SubSeq(reply.text, i, j)).ok

\* C15: for a planning reply that holds no parseable JSON (none at all, or
\* malformed), and for a failed planning call, createGenerationPlan returns the
\* default plan of type single whose plan.prompt is the user's prompt, and no
\* exception leaves the function.
C15_PlanFallback ==
    (planOut.state = "planned" /\ NoParseableJSON(planIn.reply)) =>
        /\ planOut.result.path # "raised"
        /\ IsStr(Get(planOut.result.plan, "type"), <<"single">>)
        /\ IsStr(Get(Get(planOut.result.plan, "plan"), "prompt"), planIn.prompt)

\* C15 witness: a reply with braces but malformed JSON got the default plan
C15_Witness ==
    /\ planOut.state = "planned"
    /\ planIn.reply.kind = "text"
    /\ Includes(planIn.reply.text, "{") /\ Includes(planIn.reply.text, "}")
    /\ NoParseableJSON(planIn.reply)
    /\ planOut.result.path = "fallback"

\* the raw plan of a reply, as the function reads it (first "{" to last "}")
RawPlan(reply) == greedyPair(reply.text, "{", "}", "greedy")
IsRawMulti(reply) ==
    /\ reply.kind = "text"
    /\ RawPlan(reply).ok
    /\ IsStr(Get(RawPlan(reply).val, "type"), <<"multi">>)
    /\ Get(Get(RawPlan(reply).val, "plan"), "pages").t = "array"
    /\ Len(Get(Get(RawPlan(reply).val, "plan"), "pages").v) > 0

\* C19: for every raw plan of type multi with at least one page, the plan
\* returned has a first page named "index" with isMainPage true, whatever the
\* raw plan proposed, and its plannedPages is the list of its page names in
\* order.
C19_MultiPagePinning ==
    (planOut.state = "planned" /\ IsRawMulti(planIn.reply)) =>
        LET plan == planOut.result.plan
            pages == Get(Get(plan, "plan"), "pages")
            planned == Get(plan, "plannedPages")
        IN  /\ pages.t = "array" /\ Len(pages.v) > 0
            /\ IsStr(Get(pages.v[1], "pageName"), <<"index">>)
            /\ Get(pages.v[1], "isMainPage").t = "true"
            /\ planned.t = "array" /\ Len(planned.v) = Len(pages.v)
            /\ \A i \in 1..Len(pages.v) : planned.v[i] = Get(pages.v[i], "pageName")

(***************************************************************************)
(* Properties of the architecture stage                                    *)
(***************************************************************************)
\* the global components requested by the base architecture of the call
Requested == iterated(Get(createBaseArchitecture(planIn.baseReply).baseArchitecture,
                          "globalComponents"))
ReachedComponents ==
    /\ planOut.state = "designed"
    /\ createBaseArchitecture(planIn.baseReply).success
    /\ Get(createBaseArchitecture(planIn.baseReply).baseArchitecture,
           "globalComponents").t = "array"

\* a reply none of whose sub-calls fails
GoodReplies == [i \in 1..MaxComponents |->
                   [kind |-> "text", text |-> ObjOf(<<Member("name", Str(<<"Bar">>))>>)]]

\* C20: a failed global-component-detail sub-call (a failed call or a reply
\* without parseable JSON) puts the placeholder of that component in its place:
\* the component list has exactly one entry per requested component, in request
\* order, and the outcome of the architecture plan is the one it has when every
\* sub-call succeeds.
C20_PlaceholderPerComponent ==
    ReachedComponents =>
        /\ Len(planOut.result.details) = Len(Requested)
        /\ \A i \in 1..Len(Requested) :
              NoParseableJSON(planIn.componentReplies[i])
                  => planOut.result.details[i] = placeholder(Requested[i].v)
        /\ planOut.result.success =
               createArchitecturePlanHierarchical(planIn.needsAnalysis, planIn.baseReply,
                                                  GoodReplies, planIn.pageReply).success

\* C20 witness: two components were requested, the sub-call of the first failed
\* and that of the second did not, and the plan was completed
C20_Witness ==
    /\ ReachedComponents
    /\ Len(Requested) = 2
    /\ NoParseableJSON(planIn.componentReplies[1])
    /\ ~NoParseableJSON(planIn.componentReplies[2])
    /\ planOut.result.success
    /\ planOut.result.details[2].t = "object"

(***************************************************************************)
(* C18: a planning reply without parseable JSON on the two-stage path      *)
(***************************************************************************)
\* C18: when the needs-analysis reply of a two-stage request holds no
\* parseable JSON, the request is not ended by a failure: the stream carries
\* generated content and no plan_error event.
C18_ParseErrorNotFatal ==
    (path = "twoStage" /\ pc = "done" /\ attempts = <<"unparseable">>) =>
        /\ Count(frames, "plan_error") = 0
        /\ Count(frames, "delta") > 0

(***************************************************************************)
(* C21: the stages of the two-stage pipeline                               *)
(***************************************************************************)
\* C21: a two-stage request emits its stage events in order, each at most
\* once, and ends completed or failed; when the generation-service call
\* returns parseable output the request ends completed: the assembled
\* document is forwarded as content deltas, then the completion event, and
\* there is no plan_error event.
C21_TwoStageCompletes ==
    path = "twoStage" =>
        /\ Count(frames, "stage1") = 1
        /\ pc = "done" =>
              Count(frames, "completion") + Count(frames, "plan_error") = 1
        /\ (pc = "done" /\ attempts = <<"ok">>) =>
              /\ Count(frames, "delta") > 0
              /\ Count(frames, "completion") = 1
              /\ Count(frames, "plan_error") = 0

(***************************************************************************)
(* Part 4.  The store and the endpoints that write and read it.            *)
(*                                                                         *)
(* A Project document is [id, name, plannedPages, pages] with pages a      *)
(* sequence of descriptors [pageId, pageName] (ProjectSchema, 70-88); a    *)
(* Page document is [id, projectId, pageName, html, originalHtml,          *)
(* isModification, history] (PageSchema, 55-67).  "null" stands for null,  *)
(* "none" for an absent value.  In this part a request is served from its  *)
(* first statement to its response before the next one arrives.            *)
(***************************************************************************)
MaxProjects == 1    \* Project documents created by save requests
MaxPageDocs == 2    \* Page documents created by save requests
MaxSaves == 2       \* save requests served

\* the ObjectIds the store hands out, in order
ProjectIdSeq == <<"p1", "p2", "p3">>
PageIdSeq == <<"g1", "g2", "g3", "g4">>
ProjectIdPool == {ProjectIdSeq[i] : i \in 1..MaxProjects}
PageIdPool == {PageIdSeq[i] : i \in 1..MaxPageDocs}

\* ids of requests that name no stored document: a well-formed ObjectId that
\* was never handed out, and a string that is no ObjectId
UnknownId == "p9"
MalformedId == "bad"

created(docs, pool) == {d \in docs : d.id \in pool}
freshProjectId == ProjectIdSeq[Cardinality(created(projects, ProjectIdPool)) + 1]
freshPageId == PageIdSeq[Cardinality(created(pageDocs, PageIdPool)) + 1]

\* Model.findById(id): the document, or NoDoc for null
NoDoc == [id |-> "null"]
findById(docs, id) ==
    IF \E d \in docs : d.id = id THEN CHOOSE d \in docs : d.id = id ELSE NoDoc

\* project.pages.map(p => p.pageName)
descriptorNames(pages) == [i \in 1..Len(pages) |-> pages[i].pageName]

\* project.pages.findIndex(p => p.pageName === pageName) (1964), 0 for -1
findIndex(pages, pageName) ==
    IF \E i \in 1..Len(pages) : pages[i].pageName = pageName
    THEN CHOOSE i \in 1..Len(pages) :
             /\ pages[i].pageName = pageName
             /\ \A j \in 1..(i - 1) : pages[j].pageName # pageName
    ELSE 0

\* html.trim().length (1829)
RECURSIVE length(_)
length(s) == IF s = <<>> THEN 0 ELSE Len(Head(s)) + length(Tail(s))

\* createDefaultHTML (1835-1854)
createDefaultHTML(pageName, projectName) ==
    << "<!DOCTYPE", " ", "html>", NL, "<html", " ", "lang", "=", DQ, "en", DQ, ">", NL,
       "<head>", NL, "<title>", pageName, " ", "-", " ",
       IF projectName = "null" THEN "Website" ELSE projectName, "<", "/", "title>", NL,
       "<", "/", "head>", NL, "<body>", NL,
       "<div", " ", "class", "=", DQ, "error", DQ, ">", NL,
       "<h1>", "error", "<", "/", "h1>", NL,
       "<", "/", "div>", NL, "<", "/", "body>", NL, "<", "/", "html>" >>

MinHtmlLength == 50

\* finalHtml before the rewrite of 1920 (1826-1875): the default template for
\* markup shorter than 50 characters, and for a multi-page project the links
\* of the request's markup rewritten against the planned pages
preparedHtml(req, currentProjectId, project) ==
    LET base == IF length(trim(req.html)) < MinHtmlLength
                THEN createDefaultHTML(req.pageName, req.projectName)
                ELSE req.html
        allPages == IF findIndex(project.pages, req.pageName) = 0
                    THEN Append(descriptorNames(project.pages), req.pageName)
                    ELSE descriptorNames(project.pages)
    IN  IF currentProjectId # "null" /\ req.generationType = "multi" /\ project # NoDoc
        THEN updateHtmlResources(req.html, currentProjectId, req.pageName,
                                 allPages, project.plannedPages)
        ELSE base

\* originalHtml (1827, 1857): the markup of the request, or the default
\* template in its place
originalHtml(req) ==
    IF length(trim(req.html)) < MinHtmlLength
    THEN createDefaultHTML(req.pageName, req.projectName)
    ELSE req.html

\* the markup stored (1918-1920)
storedHtml(req, currentProjectId, project) ==
    updateHtmlResources(preparedHtml(req, currentProjectId, project),
                        currentProjectId, req.pageName,
                        IF project = NoDoc THEN <<>> ELSE descriptorNames(project.pages),
                        IF project = NoDoc THEN <<>> ELSE project.plannedPages)

\* project resolution (1787-1824): [status, project, projects, currentProjectId];
\* status 0 when the handler goes on.  `fail` names the write that rejects.
\* A Project is created when !currentProjectId && projectName (1790).
\* the early returns of 1807-1823: the response is sent, nothing is written
rejectionAfterCreate(req, status) ==
    [status |-> status, project |-> NoDoc,
     projects |-> projects \cup {[id |-> freshProjectId, name |-> req.projectName,
                                  plannedPages |-> <<>>, pages |-> <<>>]},
     currentProjectId |-> req.projectId]
rejection(req, status) ==
    [status |-> status, project |-> NoDoc, projects |-> projects,
     currentProjectId |-> req.projectId]

createsProjectUnlessModification(req) == req.projectId = "null" /\ ~req.isModification
createsProject(req) == req.projectId = "null" /\ req.projectName # "null"
resolveProject(req, fail) ==
    IF createsProject(req)
    THEN LET project == [id |-> freshProjectId, name |-> req.projectName,
                         plannedPages |->
                             IF req.plannedPages = Null THEN <<>> ELSE req.plannedPages,
                         pages |-> <<>>]
         IN  IF fail = "projectCreate"
             THEN [status |-> 500, project |-> NoDoc, projects |-> projects,
                   currentProjectId |-> "null"]
             ELSE [status |-> 0, project |-> project,
                   projects |-> projects \cup {project},
                   currentProjectId |-> project.id]
    ELSE IF req.projectId # "null"
    THEN IF req.projectId = MalformedId
         THEN rejection(req, 400)
         ELSE IF findById(projects, req.projectId) = NoDoc
         THEN rejection(req, 404)
         ELSE [status |-> 0, project |-> findById(projects, req.projectId),
               projects |-> projects, currentProjectId |-> req.projectId]
    ELSE [status |-> 0, project |-> NoDoc, projects |-> projects,
          currentProjectId |-> "null"]

\* the existing page of a modification (1881-1899): Page.findById inside
\* try/catch, so an id that is no ObjectId leaves existingPage null
existingPage(req) ==
    IF req.isModification /\ req.pageId \notin {"none", MalformedId}
    THEN findById(pageDocs, req.pageId)
    ELSE NoDoc

\* modificationHistoryEntry is set (1888-1893) unless JSON.parse of the
\* modification plan throws into the catch of 1896
hasHistoryEntry(req, existing) ==
    existing # NoDoc /\ req.modificationPlan # "invalid"

\* update-or-create (1922-1961): [status, pageDocs, savedId, historyCount].
\* modificationHistory is no path of PageSchema (55-67): the array is set on the
\* document object in memory (1930-1933) and existingPage.save() does not store it.
writePage(req, fail, r, existing) ==
    LET write(html) ==
            IF req.isModification /\ existing # NoDoc
            THEN [status |-> 0, savedId |-> existing.id,
                  historyCount |-> IF hasHistoryEntry(req, existing) THEN 1 ELSE 0,
                  pageDocs |-> (pageDocs \ {existing}) \cup
                      {[existing EXCEPT !.html = html, !.isModification = TRUE]}]
            ELSE [status |-> 0, savedId |-> freshPageId, historyCount |-> 0,
                  pageDocs |-> pageDocs \cup
                      {[id |-> freshPageId, projectId |-> r.currentProjectId,
                        pageName |-> req.pageName, html |-> html,
                        originalHtml |-> originalHtml(req),
                        isModification |-> req.isModification, history |-> 0]}]
    IN  IF fail = "pageWrite"
        THEN [status |-> 500, pageDocs |-> pageDocs, savedId |-> "none", historyCount |-> 0]
        ELSE write(storedHtml(req, r.currentProjectId, r.project))

\* the project's page list after 1963-1973
withDescriptor(project, pageName, savedId) ==
    LET i == findIndex(project.pages, pageName)
    IN  IF i > 0
        THEN [project EXCEPT !.pages[i].pageId = savedId]
        ELSE [project EXCEPT !.pages =
                 Append(project.pages, [pageId |-> savedId, pageName |-> pageName])]

\* project update (1963-1976): [status, projects]
updateProject(req, fail, r, w) ==
    IF r.project = NoDoc THEN [status |-> 200, projects |-> r.projects]
    ELSE IF fail = "projectUpdate" THEN [status |-> 500, projects |-> r.projects]
    ELSE [status |-> 200,
          projects |-> (r.projects \ {r.project}) \cup
                           {withDescriptor(r.project, req.pageName, w.savedId)}]

\* app.post('/api/save') (1755-1994): [status, projects, pageDocs, failed,
\* savedId, historyCount]; failed names the write that rejected, if one did
save(req, fail) ==
    LET stop(status, ps, failed) ==
            [status |-> status, projects |-> ps, pageDocs |-> pageDocs,
             failed |-> failed, savedId |-> "none", historyCount |-> 0]
        afterWrite(r, w) ==
            LET done(u) ==
                    [status |-> u.status, projects |-> u.projects,
                     pageDocs |-> w.pageDocs,
                     failed |-> IF u.status = 500 THEN "projectUpdate" ELSE "none",
                     savedId |-> w.savedId, historyCount |-> w.historyCount]
            IN  IF w.status = 500 THEN stop(500, r.projects, "pageWrite")
                ELSE done(updateProject(req, fail, r, w))
        afterResolve(r) ==
            IF r.status = 500 THEN stop(500, r.projects, "projectCreate")
            ELSE IF r.status # 0 THEN stop(r.status, r.projects, "none")
            ELSE afterWrite(r, writePage(req, fail, r, existingPage(req)))
    IN  IF req.html = <<>> THEN stop(400, projects, "none")
        ELSE afterResolve(resolveProject(req, fail))

(***************************************************************************)
(* Save requests                                                           *)
(***************************************************************************)
\* markup of a page: a document with one navigation link
PageMarkup(link) ==
    << "<html>", NL, "<head>", NL, "<title>Shop<", "/", "title>", NL, "<", "/", "head>", NL,
       "<body>", NL, "<nav>", NL, "<a", " " >> \o link \o
    << ">About<", "/", "a>", NL, "<", "/", "nav>", NL, "<", "/", "body>", NL,
       "<", "/", "html>" >>

AboutDotHtml == PageMarkup(ItemText("href", DQ, <<"about", ".", "html">>))
\* the same link written relative to the current directory: href="./about.html"
DotSlashAbout == PageMarkup(ItemText("href", DQ, <<".", "/", "about", ".", "html">>))
\* a link to the home page: href="./"
HomeLink == PageMarkup(ItemText("href", DQ, <<".", "/">>))
ShortMarkup == <<"<p>", "soon", "<", "/", "p>">>

PageNameValues == {"index", "about", "contact"}
PlannedPagesValues == {<<>>, <<"index", "about">>}
FailSteps == {"none", "projectCreate", "pageWrite", "projectUpdate"}

SaveRequest(html, isModification, pageId, modificationPlan, projectId, projectName,
            pageName, generationType, plannedPages) ==
    [html |-> html, isModification |-> isModification, pageId |-> pageId,
     modificationPlan |-> modificationPlan, projectId |-> projectId,
     projectName |-> projectName, pageName |-> pageName,
     generationType |-> generationType, plannedPages |-> plannedPages]

\* requests that cannot be served: no markup, a project id that is no
\* ObjectId, a project id that names no Project
RejectedSaves ==
    { SaveRequest(<<>>, FALSE, "none", "none", "null", "Shop", "index", "multi", <<>>),
      SaveRequest(AboutDotHtml, FALSE, "none", "none", MalformedId, "null", "index", "multi", <<>>),
      SaveRequest(AboutDotHtml, FALSE, "none", "none", UnknownId, "null", "index", "multi", <<>>),
      SaveRequest(AboutDotHtml, FALSE, "none", "none", UnknownId, "Shop", "about", "multi",
                  <<"index", "about">>) }

\* requests without a project id: the first save of a project (with a project
\* name), or the save of a page that belongs to no project
FirstSaves ==
    { SaveRequest(AboutDotHtml, m, "none", "none", "null", "Shop", n, "multi", pp) :
          m \in BOOLEAN, n \in {"index", "about"}, pp \in PlannedPagesValues }
    \cup
    { SaveRequest(h, m, "none", "none", "null", "null", "index", "single", <<>>) :
          h \in {AboutDotHtml, HomeLink}, m \in BOOLEAN }

\* non-modification saves into an existing project
PageSaves ==
    { SaveRequest(h, FALSE, "none", "none", p, "null", n, g, <<>>) :
          h \in {AboutDotHtml, DotSlashAbout}, p \in ProjectIdPool, n \in PageNameValues,
          g \in {"single", "multi"} }
    \cup
    { SaveRequest(ShortMarkup, FALSE, "none", "none", p, "null", "contact", g, <<>>) :
          p \in ProjectIdPool, g \in {"single", "multi"} }

\* modification saves: with the id of a page, with an id that names no Page,
\* or without one; pageName is left to its default or names the page
ModificationSaves ==
    { SaveRequest(AboutDotHtml, TRUE, g, mp, p, "null", n, "multi", <<>>) :
          g \in PageIdPool \cup {"none", UnknownId}, mp \in {"none", "invalid"},
          p \in ProjectIdPool, n \in {"index", "about"} }

SaveRequests == RejectedSaves \cup FirstSaves \cup PageSaves \cup ModificationSaves

\* documents that were in the store before the first request
LegacyProjectIds == {"p0"}
LegacyPageIds == {"g0"}

\* a save request is served; the ids the store hands out are those of the pools
Save(req, fail) ==
    /\ saves < MaxSaves
    /\ LET serve(out) ==
               /\ \A d \in out.projects : d.id \in ProjectIdPool \cup LegacyProjectIds
               /\ \A d \in out.pageDocs : d.id \in PageIdPool \cup LegacyPageIds
               /\ projects' = out.projects
               /\ pageDocs' = out.pageDocs
               /\ last' = [op |-> "save", status |-> out.status, failed |-> out.failed,
                           isModification |-> req.isModification, pageId |-> req.pageId,
                           projectId |-> req.projectId, projectName |-> req.projectName,
                           pageName |-> req.pageName, plannedPages |-> req.plannedPages,
                           hasHtml |-> req.html # <<>>,
                           short |-> length(trim(req.html)) < MinHtmlLength,
                           generationType |-> req.generationType,
                           savedId |-> out.savedId, historyCount |-> out.historyCount]
       IN  serve(save(req, fail))
    /\ saves' = saves + 1
    /\ UNCHANGED <<streamVars, rwVars, planVars, sideVars>>

(***************************************************************************)
(* The preview endpoints                                                   *)
(***************************************************************************)
\* <meta name="..." content="..."> on a line of its own
metaElement(name, content) ==
    << "<meta", " ", "name", "=", DQ, name, DQ, " ", "content", "=", DQ, content, DQ, ">", NL >>

\* html.replace('<head>', `<head> <meta ...>`) (2007-2015, 2104-2114,
\* 2323-2331, 2384-2394): the first <head> is followed by the meta elements
RECURSIVE insertMeta(_, _)
insertMeta(html, metas) ==
    IF html = <<>> THEN <<>>
    ELSE IF Head(html) = "<head>" THEN <<"<head>", NL>> \o metas \o Tail(html)
    ELSE <<Head(html)>> \o insertMeta(Tail(html), metas)

\* the meta elements of a single page (2009-2014) and of a project's page
singlePageMeta == metaElement("generator", "AI Web Builder")
projectPageMeta(project, projectId, pageName) ==
    metaElement("generator", "AI Web Builder") \o metaElement("projectId", projectId)
        \o metaElement("projectName", project.name) \o metaElement("pageName", pageName)

\* a response: status, the branch that sent it, the Page served, the markup
\* the rewriter returned, the body sent, the pages a 404 lists
Response(status, via, pageId, rewritten, body, listed) ==
    [status |-> status, via |-> via, pageId |-> pageId, rewritten |-> rewritten,
     body |-> body, listed |-> listed]
NotFound(via, listed) == Response(404, via, "none", <<>>, <<>>, listed)

\* a page served through the rewriter (2096-2114, 2317-2331, 2378-2394)
Served(via, page, project, projectId, pageName) ==
    LET send(rewritten) ==
            Response(200, via, page.id, rewritten,
                     insertMeta(rewritten, projectPageMeta(project, projectId, pageName)),
                     <<>>)
    IN  send(updateHtmlResources(page.html, projectId, pageName,
                                 descriptorNames(project.pages),
                                 descriptorNames(project.pages)))

\* project.pages.find(p => p.pageName === pageName) (2053, 2201), or NoDescriptor
NoDescriptor == [pageId |-> "none", pageName |-> "<none>"]
findDescriptor(pages, pageName) ==
    IF findIndex(pages, pageName) = 0 THEN NoDescriptor
    ELSE pages[findIndex(pages, pageName)]

\* app.get('/preview/:projectId') (1997-2156)
previewRoot(projectId) ==
    LET page == findById(pageDocs, projectId)
        project == findById(projects, projectId)
        indexPageInfo == findDescriptor(project.pages, "index")
        indexPage == findById(pageDocs, indexPageInfo.pageId)
    IN  IF page # NoDoc
        THEN Response(200, "singlePage", page.id, page.html,
                      insertMeta(page.html, singlePageMeta), <<>>)
        ELSE IF project = NoDoc THEN NotFound("noProject", <<>>)
        ELSE IF indexPageInfo = NoDescriptor THEN NotFound("noIndex", <<>>)
        ELSE IF indexPage = NoDoc THEN NotFound("noData", <<>>)
        ELSE Served("byId", indexPage, project, projectId, "index")

\* pageName.endsWith('.html') ? pageName.slice(0, -5) : pageName (2163-2165),
\* on the path parameter as a token sequence
stripDotHtml(param) ==
    IF Len(param) >= 2 /\ SubSeq(param, Len(param) - 1, Len(param)) = <<".", "html">>
    THEN SubSeq(param, 1, Len(param) - 2)
    ELSE param

\* the path parameter as one name: the text of its tokens
RECURSIVE text(_)
text(param) == IF param = <<>> THEN "" ELSE Head(param) \o text(Tail(param))

\* the canonical URL of a page (2215)
pageUrlUnderProject(projectId, pageName) == <<"/", "preview", "/", projectId, "/", pageName>>
pageUrl(projectId, pageName) ==
    IF pageName = "index" THEN <<"/", "preview", "/", projectId>>
    ELSE <<"/", "preview", "/", projectId, "/", pageName>>

\* availablePages (2213-2216)
availablePages(project, projectId) ==
    [i \in 1..Len(project.pages) |->
        [name |-> project.pages[i].pageName,
         url |-> pageUrl(projectId, project.pages[i].pageName)]]

\* Page.findOne({projectId, pageName}) (2312-2315): the documents it may return
findOneCandidates(projectId, pageName) ==
    {d \in pageDocs : d.projectId = projectId /\ d.pageName = pageName}

\* app.get('/preview/:projectId/:pageName') (2158-2424); `found` is the
\* document findOne returned, NoDoc for null
previewPage(projectId, param, found) ==
    LET pageName == text(stripDotHtml(param))
        project == findById(projects, projectId)
        pageInfo == findDescriptor(project.pages, pageName)
        page == findById(pageDocs, pageInfo.pageId)
    IN  IF project = NoDoc THEN NotFound("noProject", <<>>)
        ELSE IF pageInfo = NoDescriptor
        THEN NotFound("noPage", availablePages(project, projectId))
        ELSE IF pageInfo.pageId = "none" /\ found # NoDoc
        THEN Served("byName", found, project, projectId, pageName)
        ELSE IF page = NoDoc THEN NotFound("noData", <<>>)
        ELSE Served("byId", page, project, projectId, pageName)

PreviewIds == ProjectIdPool \cup LegacyProjectIds \cup {UnknownId}
PageParams == {<<"index">>, <<"about">>, <<"contact">>, <<"about", ".", "html">>}

\* preview requests read the store; they are served after the save requests
PreviewRoot(projectId) ==
    /\ saves = MaxSaves
    /\ last.op = "save"
    /\ last' = [op |-> "previewRoot", projectId |-> projectId, pageName |-> "index",
                response |-> previewRoot(projectId)]
    /\ UNCHANGED <<projects, pageDocs, saves, streamVars, rwVars, planVars, sideVars>>

PreviewPage(projectId, param) ==
    /\ saves = MaxSaves
    /\ last.op = "save"
    /\ \E found \in (IF findOneCandidates(projectId, text(stripDotHtml(param))) = {}
                     THEN {NoDoc}
                     ELSE findOneCandidates(projectId, text(stripDotHtml(param)))) :
          last' = [op |-> "previewPage", projectId |-> projectId,
                   pageName |-> text(stripDotHtml(param)),
                   response |-> previewPage(projectId, param, found)]
    /\ UNCHANGED <<projects, pageDocs, saves, streamVars, rwVars, planVars, sideVars>>

(***************************************************************************)
(* The store before the first request: empty, or holding a project saved   *)
(* under the old schema, whose descriptors carry no page reference (2304)  *)
(***************************************************************************)
LegacyProject ==
    [id |-> "p0", name |-> "Old", plannedPages |-> <<"index", "about">>,
     pages |-> << [pageId |-> "none", pageName |-> "index"],
                  [pageId |-> "none", pageName |-> "about"] >>]
LegacyPage ==
    [id |-> "g0", projectId |-> "p0", pageName |-> "index", html |-> AboutDotHtml,
     originalHtml |-> AboutDotHtml, isModification |-> FALSE, history |-> 0]

StoreInit ==
    /\ StreamInit
    /\ rwIn = NoRun /\ rwOut = NoRun /\ planIn = NoRun /\ planOut = NoRun
    /\ \/ projects = {} /\ pageDocs = {}
       \/ projects = {LegacyProject} /\ pageDocs = {LegacyPage}
    /\ last = NoRequest
    /\ saves = 0
    /\ SideIdle

StoreNext ==
    \/ \E req \in SaveRequests, fail \in FailSteps : Save(req, fail)
    \/ \E id \in PreviewIds \cup PageIdPool : PreviewRoot(id)
    \/ \E id \in PreviewIds, param \in PageParams : PreviewPage(id, param)
StoreSpec == StoreInit /\ [][StoreNext]_vars

(***************************************************************************)
(* Properties of the save endpoint                                         *)
(***************************************************************************)
\* a save request has just been served and answered with success
SaveServed == saves' = saves + 1 /\ last'.op = "save" /\ last'.status = 200

\* C22: a save flagged as a modification never adds a Page document, with or
\* without a page id and whether or not the id names a stored Page; when the
\* id names a stored Page that Page stays in place and exactly one entry is
\* added to its modification history.
C22_ModificationNeverDuplicates ==
    [][(SaveServed /\ last'.isModification) =>
          /\ Cardinality(pageDocs') <= Cardinality(pageDocs)
          /\ findById(pageDocs, last'.pageId) # NoDoc =>
                /\ findById(pageDocs', last'.pageId) # NoDoc
                /\ findById(pageDocs', last'.pageId).history =
                       findById(pageDocs, last'.pageId).history + 1]_vars

\* a save request has just been served, whatever the response
SaveHandled == saves' = saves + 1 /\ last'.op = "save"

\* the Project documents the step created
NewProjects == {p \in projects' : \A q \in projects : q.id # p.id}

C24_PagesWithinPlan ==
    /\ [](\A p \in projects : \A i \in 1..Len(p.pages) :
             \E j \in 1..Len(p.plannedPages) : p.plannedPages[j] = p.pages[i].pageName)
    /\ [][\A p \in projects : \E q \in projects' :
             /\ q.id = p.id
             /\ \A i \in 1..Len(p.pages) :
                   \E j \in 1..Len(q.pages) : q.pages[j].pageName = p.pages[i].pageName]_vars

\* the Page documents of a project
PagesOf(p) == {d \in pageDocs : d.projectId = p.id}

\* C25: after any sequence of save requests, in every project that has a
\* saved page no two Page documents share a page name, and exactly one Page
\* document has the page name "index".
C25_UniquePageNames ==
    \A p \in projects :
        PagesOf(p) # {} =>
            /\ \A d, e \in PagesOf(p) : d.pageName = e.pageName => d = e
            /\ Cardinality({d \in PagesOf(p) : d.pageName = "index"}) = 1

\* C26: a save fails atomically: when a write of a save request fails (the
\* creation of the Project, the write of the Page, the update of the Project's
\* page list), the store is left exactly as it was before the request.
C26_SaveFailsAtomically ==
    [][(SaveHandled /\ last'.failed # "none") =>
          projects' = projects /\ pageDocs' = pageDocs]_vars

(***************************************************************************)
(* Properties of the preview endpoints                                     *)
(***************************************************************************)
\* a preview request was answered with a page that went through the rewriter
PageServed ==
    /\ last.op \in {"previewRoot", "previewPage"}
    /\ last.response.status = 200
    /\ last.response.via \in {"byId", "byName"}

\* C27: the preview-time rewrite is a no-op on stored markup: for a page
\* stored by a successful save of a project, the rewriter called with the
\* project id, the page name and the names of project.pages at preview time
\* returns the stored markup unchanged, whatever was saved before or after.
C27_PreviewRewriteNoOp ==
    (PageServed /\ last.response.pageId \in PageIdPool) =>
        last.response.rewritten = findById(pageDocs, last.response.pageId).html

\* the project a preview request names, and the names a sequence holds
RequestedProject(id) == findById(projects, id)
Names(seq) == {seq[i] : i \in 1..Len(seq)}

\* the canonical address of a page: the project root for index
CanonicalUrl(projectId, name) ==
    <<"/", "preview", "/", projectId>> \o (IF name = "index" THEN <<>> ELSE <<"/", name>>)

\* the response is a 404 that lists exactly these names, each with its
\* canonical address
Lists404(names) ==
    /\ last.response.status = 404
    /\ last.response.listed =
           [i \in 1..Len(names) |->
               [name |-> names[i], url |-> CanonicalUrl(last.projectId, names[i])]]

MatchedWithoutReference ==
    /\ last.op \in {"previewRoot", "previewPage"}
    /\ last.response.via # "singlePage"
    /\ RequestedProject(last.projectId) # NoDoc
    /\ findDescriptor(RequestedProject(last.projectId).pages, last.pageName) # NoDescriptor
    /\ findDescriptor(RequestedProject(last.projectId).pages, last.pageName).pageId = "none"

\* C29: whenever the descriptor matched for the requested page (index on the
\* project-root endpoint, the named page on the sub-page endpoint) has no page
\* reference, the Page is looked up by project id and page name and served if
\* it is found; the answer is a 404 only if that lookup finds nothing.
C29_LegacyFallback ==
    MatchedWithoutReference =>
        IF findOneCandidates(last.projectId, last.pageName) # {}
        THEN /\ last.response.status = 200
             /\ \E d \in findOneCandidates(last.projectId, last.pageName) :
                    last.response.pageId = d.id
        ELSE last.response.status = 404

(***************************************************************************)
(* C30: the project id on the stream                                       *)
(***************************************************************************)
\* the top-level properties of the JSON value a client parses out of a frame:
\* ping (1414), status (1695), content delta (1708-1714 and 1475-1481),
\* completion (1727-1732 and 1485-1489), the error events (1497-1500,
\* 1740-1743).  The stage frame carries the [PLAN_PROGRESS] prefix (1450) and
\* the sentinel is [DONE] (1734): neither parses as JSON.
eventKeys(frame) ==
    CASE frame = "ping" -> {"type", "timestamp"}
      [] frame = "status" -> {"type", "message"}
      [] frame = "delta" -> {"choices"}
      [] frame = "completion" -> {"type", "totalChars", "totalTokens", "success"}
      [] frame \in {"error", "plan_error"} -> {"error", "type"}
      [] OTHER -> {}

\* C30: a generation request to the stream endpoint has, by the time its
\* stream has ended, delivered at least one JSON event that carries the
\* projectId.  The handler reads neither generationType nor pageNames
\* (1358-1376), so a multi-page request takes the branch its planType and
\* isModification select, like any other request.
C30_StreamCarriesProjectId ==
    pc = "done" =>
        \E i \in 1..Len(frames) : "projectId" \in eventKeys(frames[i])

(***************************************************************************)
(* C31: navigability of a project whose planned pages are all saved        *)
(***************************************************************************)
\* every planned page of the project has a descriptor that refers to a stored
\* Page of that name
AllPlannedSaved(project) ==
    /\ project.plannedPages # <<>>
    /\ \A i \in 1..Len(project.plannedPages) :
          LET info == findDescriptor(project.pages, project.plannedPages[i])
          IN  /\ info # NoDescriptor
              /\ findById(pageDocs, info.pageId) # NoDoc

\* a link that leaves the site or stays on the page: an absolute URL or a
\* fragment (the links test-navigation-fix.js:73 does not count as relative)
LeavesSite(v) == AtHttp(v, 1) \/ Tok(v, 1) = "#"

\* the address is in /preview/ form and the preview endpoints serve it
ResolvesToPage(v) ==
    \/ /\ Len(v) = 4
       /\ v = ProjectRoot(v[4])
       /\ previewRoot(v[4]).status = 200
    \/ /\ Len(v) = 6
       /\ v = PagePath(v[4], v[6])
       /\ \A found \in (IF findOneCandidates(v[4], v[6]) = {} THEN {NoDoc}
                        ELSE findOneCandidates(v[4], v[6])) :
              previewPage(v[4], <<v[6]>>, found).status = 200

\* C31: once every planned page of a project has been saved, every intra-site
\* link in the markup the preview endpoints serve for a page of the project is
\* in /preview/ form and resolves to a served page.  The pages a link leads to
\* are served pages of the same project, so the property carries over to every
\* page reached by following links.
C31_Navigable ==
    ( /\ last.op \in {"previewRoot", "previewPage"}
      /\ last.response.status = 200
      /\ RequestedProject(last.projectId) # NoDoc
      /\ AllPlannedSaved(RequestedProject(last.projectId)) )
    => \A k \in 1..Len(Hrefs(last.response.body)) :
          LET v == HrefValue(Hrefs(last.response.body)[k])
          IN  LeavesSite(v) \/ ResolvesToPage(v)

(***************************************************************************)
(* Part 5: the assembled document on the stream (1468-1491)                *)
(*                                                                         *)
(* A document is a sequence of characters.  The success branch cuts it     *)
(* with finalHTML.match(/.{1,100}/g) and sends one content delta per piece.*)
(***************************************************************************)
ChunkSize == 100
MaxLines == 3       \* lines of an assembled document

\* the characters the pattern's dot does not match
CR == "\r"
LineTerminators == {NL, CR}

\* .{1,100} at position i: the greedy run of at most 100 characters, none of
\* them a line terminator; 0 when there is no match at i
dotRun(s, i) ==
    LET stops == {k \in i..(Len(s) + 1) :
                     \/ k = Len(s) + 1
                     \/ k = i + ChunkSize
                     \/ s[k] \in LineTerminators}
    IN  (CHOOSE k \in stops : \A m \in stops : k <= m) - i

\* String.prototype.match with the g flag (1472): every match, left to right;
\* a position with no match is stepped over.  No match at all gives null,
\* which `|| []` turns into the empty list.
RECURSIVE matchAll(_, _)
matchAll(s, i) ==
    IF i > Len(s) THEN <<>>
    ELSE IF dotRun(s, i) = 0 THEN matchAll(s, i + 1)
    ELSE <<SubSeq(s, i, i + dotRun(s, i) - 1)>> \o matchAll(s, i + dotRun(s, i))
chunksOf(html) == matchAll(html, 1)

\* the for loop of 1474-1482: one content delta per chunk, in order
sendChunks(sent, chunks) == sent \o chunks

\* what a client puts together from the content fields, in emission order
RECURSIVE concat(_)
concat(pieces) == IF pieces = <<>> THEN <<>> ELSE Head(pieces) \o concat(Tail(pieces))

\* assembled documents: lines of characters joined by line breaks
Letters == <<"<", "d", "i", "v", ">", "a", "b">>
lineOf(n, shift) == [k \in 1..n |-> Letters[((k + shift) % Len(Letters)) + 1]]
LineLengths == {0, 1, ChunkSize - 1, ChunkSize, ChunkSize + 1, 2 * ChunkSize + 1}
RECURSIVE joinLines(_)
joinLines(lens) ==
    IF Len(lens) = 1 THEN lineOf(lens[1], 1)
    ELSE lineOf(lens[1], Len(lens)) \o <<NL>> \o joinLines(Tail(lens))
Documents ==
    {joinLines(lens) : lens \in UNION {[1..n -> LineLengths] : n \in 1..MaxLines}}

\* the success branch (1468-1491): cut, send the deltas, then completion and
\* sentinel
StreamDocument ==
    /\ ~streamed
    /\ contents' = sendChunks(contents, chunksOf(finalHTML))
    /\ streamed' = TRUE
    /\ UNCHANGED <<finalHTML, streamVars, rwVars, planVars, storeVars, concVars, relayVars,
                   logVars>>

ChunkInit ==
    /\ StreamInit
    /\ rwIn = NoRun /\ rwOut = NoRun /\ planIn = NoRun /\ planOut = NoRun
    /\ StoreIdle
    /\ finalHTML \in Documents
    /\ contents = <<>>
    /\ streamed = FALSE
    /\ ConcIdle
    /\ RelayIdle
    /\ LoggerNew
ChunkNext == StreamDocument
ChunkSpec == ChunkInit /\ [][ChunkNext]_vars

NoProjectAddress(v) == AtPreview(v, 1) /\ Tok(v, 4) \in {"null", "undefined", ""}

\* C33: the markup stored by a save that is linked to no project holds no href
\* that refers to /preview/ followed by a null or empty project id.
C33_NoLinkToNullProject ==
    \A d \in pageDocs :
        d.projectId = "null" =>
            \A k \in 1..Len(Hrefs(d.html)) :
                ~NoProjectAddress(HrefValue(Hrefs(d.html)[k]))

(***************************************************************************)
(* C34: the default template                                               *)
(***************************************************************************)
\* the Page the last save request wrote
SavedPage == findById(pageDocs, last.savedId)

\* C34: a save request whose markup, trimmed, is shorter than 50 characters
\* stores the default template as the page's html and as its originalHtml,
\* whatever the generation type.
C34_ShortMarkupStoresTemplate ==
    ( /\ last.op = "save"
      /\ last.status = 200
      /\ last.short )
    => /\ SavedPage.html = createDefaultHTML(last.pageName, last.projectName)
       /\ SavedPage.originalHtml = createDefaultHTML(last.pageName, last.projectName)

(***************************************************************************)
(* Part 6: concurrent save requests to one project                         *)
(*                                                                         *)
(* A handler is suspended at its awaits: Project.findById (1816),          *)
(* page.save() (1958) and project.save() (1974).  Between them the store   *)
(* serves the other handlers.  project.save() sends the changes made to    *)
(* the in-memory document: an element pushed onto pages goes out as a push *)
(* onto the stored array and increments the version key; an assignment to  *)
(* pages[i].pageId goes out as a set of that position, conditional on the  *)
(* version key the document was loaded with.                               *)
(***************************************************************************)
MaxHandlers == 2

HandlerIds == 1..MaxHandlers
ConcPageNames == {"index", "about"}
ConcProjectId == "p1"

\* the request of a handler: a page of the project, not a modification
concRequest(pageName) ==
    SaveRequest(AboutDotHtml, FALSE, "none", "none", ConcProjectId, "null", pageName,
                "multi", <<>>)

IdleHandler == [pc |-> "idle", pageName |-> "none", project |-> NoDoc, loaded |-> 0,
                savedId |-> "none", status |-> 0]

\* the project after the save request that created it (1790-1801, 1963-1974)
\* and the page that request stored
ProjectCreated ==
    [id |-> ConcProjectId, name |-> "Shop", plannedPages |-> <<"index", "about">>,
     pages |-> <<>>]
FirstPage ==
    [id |-> "g1", projectId |-> ConcProjectId, pageName |-> "index",
     html |-> storedHtml(concRequest("index"), ConcProjectId, ProjectCreated),
     originalHtml |-> AboutDotHtml, isModification |-> FALSE, history |-> 0]
ProjectSaved ==
    [ProjectCreated EXCEPT !.pages = <<[pageId |-> "g1", pageName |-> "index"]>>]

\* the id of a new Page document: one no stored Page has
newPageId == PageIdSeq[Cardinality(pageDocs) + 1]

\* the request arrives and Project.findById resolves (1755-1824): the handler
\* holds the project as it is stored now
ConcLoad(h, pageName) ==
    /\ handlers[h].pc = "idle"
    /\ handlers' = [handlers EXCEPT ![h] =
          [pc |-> "loaded", pageName |-> pageName,
           project |-> findById(projects, ConcProjectId), loaded |-> version,
           savedId |-> "none", status |-> 0]]
    /\ UNCHANGED <<version, storeVars, streamVars, rwVars, planVars, chunkVars, relayVars,
                   logVars>>

\* 1826-1961: the markup is prepared against the project the handler holds and
\* page.save() stores a new Page
ConcPageSave(h) ==
    /\ handlers[h].pc = "loaded"
    /\ pageDocs' = pageDocs \cup
          {[id |-> newPageId, projectId |-> ConcProjectId,
            pageName |-> handlers[h].pageName,
            html |-> storedHtml(concRequest(handlers[h].pageName), ConcProjectId,
                                handlers[h].project),
            originalHtml |-> originalHtml(concRequest(handlers[h].pageName)),
            isModification |-> FALSE, history |-> 0]}
    /\ handlers' = [handlers EXCEPT ![h].pc = "pageSaved", ![h].savedId = newPageId]
    /\ UNCHANGED <<version, projects, last, saves, streamVars, rwVars, planVars, chunkVars,
                   relayVars, logVars>>

\* the stored array after the push of 1968-1972
pushDescriptor(stored, pageName, savedId) ==
    [stored EXCEPT !.pages = Append(stored.pages, [pageId |-> savedId, pageName |-> pageName])]

\* the stored array after the positional set of 1966
setPageId(stored, i, savedId) == [stored EXCEPT !.pages[i].pageId = savedId]

\* 1963-1994: the page list of the project the handler holds is searched and
\* changed, project.save() sends the change, the response is written.  A set
\* whose version condition fails rejects, and the catch of 1987 answers 500.
ConcProjectSave(h) ==
    /\ handlers[h].pc = "pageSaved"
    /\ LET i == findIndex(handlers[h].project.pages, handlers[h].pageName)
           stored == findById(projects, ConcProjectId)
       IN  IF i = 0
           THEN /\ projects' = (projects \ {stored}) \cup
                       {pushDescriptor(stored, handlers[h].pageName, handlers[h].savedId)}
                /\ version' = version + 1
                /\ handlers' = [handlers EXCEPT ![h].pc = "done", ![h].status = 200]
           ELSE IF handlers[h].loaded = version
           THEN /\ projects' = (projects \ {stored}) \cup
                       {setPageId(stored, i, handlers[h].savedId)}
                /\ version' = version
                /\ handlers' = [handlers EXCEPT ![h].pc = "done", ![h].status = 200]
           ELSE /\ UNCHANGED <<projects, version>>
                /\ handlers' = [handlers EXCEPT ![h].pc = "done", ![h].status = 500]
    /\ UNCHANGED <<pageDocs, last, saves, streamVars, rwVars, planVars, chunkVars, relayVars,
                   logVars>>

ConcInit ==
    /\ StreamInit
    /\ rwIn = NoRun /\ rwOut = NoRun /\ planIn = NoRun /\ planOut = NoRun
    /\ ChunkIdle
    /\ RelayIdle
    /\ LoggerNew
    /\ \/ projects = {ProjectCreated} /\ pageDocs = {}
       \/ projects = {ProjectSaved} /\ pageDocs = {FirstPage}
    /\ last = NoRequest
    /\ saves = 0
    /\ handlers = [h \in HandlerIds |-> IdleHandler]
    /\ version \in {0, 1}
    /\ version = Len(findById(projects, ConcProjectId).pages)

ConcNext ==
    \/ \E h \in HandlerIds, n \in ConcPageNames : ConcLoad(h, n)
    \/ \E h \in HandlerIds : ConcPageSave(h)
    \/ \E h \in HandlerIds : ConcProjectSave(h)
ConcSpec == ConcInit /\ [][ConcNext]_vars

\* C35: under any interleaving of concurrent save requests to one project the
\* page list of the project never holds two descriptors with the same page
\* name, and every request that was answered with success has a descriptor
\* for its page in the list.
C35_NoDuplicateNoLostUpdate ==
    /\ \A p \in projects :
          \A i \in 1..Len(p.pages), j \in 1..Len(p.pages) :
              p.pages[i].pageName = p.pages[j].pageName => i = j
    /\ \A h \in HandlerIds :
          (handlers[h].pc = "done" /\ handlers[h].status = 200) =>
              findIndex(findById(projects, ConcProjectId).pages, handlers[h].pageName) # 0

(***************************************************************************)
(* C36: rejected save requests                                             *)
(***************************************************************************)
\* C36: a save request that is rejected (no markup: 400; a project id that is
\* no ObjectId: 400; a project id that names no Project: 404) creates and
\* modifies no Project and no Page.
C36_RejectedSaveLeavesStore ==
    [][ (SaveHandled /\ last'.status \in {400, 404})
            => (projects' = projects /\ pageDocs' = pageDocs) ]_vars

\* C36 witness: a request naming an unknown project was answered 404 while the
\* store held a project and a page
C36_Witness ==
    /\ last.op = "save"
    /\ last.status = 404
    /\ last.projectName # "null"
    /\ projects # {}
    /\ pageDocs # {}

(***************************************************************************)
(* C37: the sentinel is the last frame                                     *)
(***************************************************************************)
TerminalEvents == {"completion", "error", "plan_error"}

\* C37: on every exit path of a stream request the sentinel is the last frame
\* written: no frame of any kind follows it, at any time; and when the handler
\* has returned, the frame before the sentinel is the completion event or an
\* error event, an error event when no generation stream was opened.
C37_SentinelLast ==
    /\ \A i \in 1..Len(frames) : frames[i] = "DONE" => i = Len(frames)
    /\ pc = "done" =>
          /\ Len(frames) >= 2
          /\ frames[Len(frames)] = "DONE"
          /\ frames[Len(frames) - 1] \in TerminalEvents
          /\ stream = "null" => frames[Len(frames) - 1] \in {"error", "plan_error"}

\* C37 witness: a direct stream that forwarded content and pings, then threw
C37_Witness ==
    /\ pc = "done" /\ path = "direct"
    /\ tokenCount > 0
    /\ Count(frames, "ping") > 0
    /\ LastTwo(frames) = <<"error", "DONE">>

(***************************************************************************)
(* Part 7: the buffered relay (src/unnamed/part_007, 62-271)               *)
(*                                                                         *)
(* The handler fetches the generation stream and registers three           *)
(* callbacks on its body: 'data', 'end' and 'error'.  Text deltas are      *)
(* gathered in chunkBuffer and sent when the buffer is larger than 50      *)
(* characters or holds '>' or a line break, or when the 200 ms timer       *)
(* fires.  `written` records the calls on the response by type: "ping", a *)
(* content "delta" with its pieces, "error", "DONE", and "END" for         *)
(* res.end().                                                              *)
(* A text piece is [n, kind]: n numbers the upstream deltas.               *)
(***************************************************************************)
MaxUpstream == 3    \* data events of the upstream body
FlushSize == 50

PieceKinds == {"word", "tag", "blank", "long"}
\* the length of a piece of text, whether it is white space only, and whether
\* it holds '>' or a line break
textLength(kind) ==
    CASE kind = "word" -> 5 [] kind = "tag" -> 5 [] kind = "blank" -> 1 [] kind = "long" -> 60
isBlank(kind) == kind = "blank"
hasBreak(kind) == kind = "tag"

\* a call on the response
Call(type) == [type |-> type]
ContentDelta(pieces) == [type |-> "delta", content |-> pieces]

\* chunkBuffer.length
RECURSIVE bufferLength(_)
bufferLength(buf) ==
    IF buf = <<>> THEN 0 ELSE textLength(Head(buf).kind) + bufferLength(Tail(buf))

\* chunkBuffer.trim() is not empty (167)
trimmedNotEmpty(buf) == \E k \in 1..Len(buf) : ~isBlank(buf[k].kind)

\* flushChunkBuffer (166-179): [written, chunkBuffer]
flushChunkBuffer(w, buf) ==
    IF trimmedNotEmpty(buf)
    THEN [written |-> Append(w, ContentDelta(buf)), chunkBuffer |-> <<>>]
    ELSE [written |-> w, chunkBuffer |-> buf]

\* the test of 212: chunkBuffer.length > 50 || includes('>') || includes('\n')
flushNow(buf) ==
    bufferLength(buf) > FlushSize \/ \E k \in 1..Len(buf) : hasBreak(buf[k].kind)

\* an upstream line: a text delta, an event of another type, or the
\* sentinel line
DeltaLine(piece) == [line |-> "delta", piece |-> piece]
OtherLine == [line |-> "other"]
DoneLine == [line |-> "[DONE]"]

\* the request (62-164): a failed fetch goes to the catch of 265; otherwise
\* the ping is written and the callbacks are registered
RelayRequest(ok) ==
    /\ upstream.state = "none"
    /\ IF ok
       THEN /\ upstream' = [upstream EXCEPT !.state = "open"]
            /\ written' = <<Call("ping")>>
       ELSE /\ upstream' = [upstream EXCEPT !.state = "failed"]
            /\ written' = <<Call("error"), Call("DONE"), Call("END")>>
    /\ UNCHANGED <<lineBuffer, chunkBuffer, chunkTimer>>
    /\ UNCHANGED <<streamVars, rwVars, planVars, storeVars, chunkVars, concVars, logVars>>

\* the body of the 'data' callback for one complete line (191-222)
onLine(l) ==
    IF l = DoneLine
    THEN LET f == flushChunkBuffer(written, chunkBuffer)
         IN  /\ written' = f.written \o <<Call("DONE"), Call("END")>>
             /\ chunkBuffer' = f.chunkBuffer
             /\ chunkTimer' = "null"
    ELSE IF l.line = "delta"
    THEN LET buf == Append(chunkBuffer, l.piece)
             f == flushChunkBuffer(written, buf)
         IN  IF flushNow(buf)
             THEN /\ written' = f.written
                  /\ chunkBuffer' = f.chunkBuffer
                  /\ chunkTimer' = "null"
             ELSE /\ written' = written
                  /\ chunkBuffer' = buf
                  /\ chunkTimer' = "pending"
    ELSE UNCHANGED <<written, chunkBuffer, chunkTimer>>

\* the text deltas the upstream has delivered, with the one of this event
delivered(l) ==
    IF l.line = "delta" THEN Append(upstream.deltas, l.piece) ELSE upstream.deltas

\* resp.body.on('data') (184-224) with a chunk that ends a line: the line in
\* `buffer`, if there is one, or else the line the chunk holds
RelayData(l) ==
    /\ upstream.state = "open"
    /\ ~upstream.done
    /\ upstream.sent < MaxUpstream
    /\ IF lineBuffer = NoLine
       THEN /\ onLine(l)
            /\ upstream' = [upstream EXCEPT !.sent = @ + 1, !.deltas = delivered(l),
                                            !.done = (l = DoneLine)]
       ELSE /\ onLine(lineBuffer)
            /\ upstream' = [upstream EXCEPT !.sent = @ + 1,
                                            !.done = (lineBuffer = DoneLine)]
    /\ lineBuffer' = NoLine
    /\ UNCHANGED <<streamVars, rwVars, planVars, storeVars, chunkVars, concVars, logVars>>

\* resp.body.on('data') with a chunk that ends inside a line: the line stays
\* in `buffer` (186-188)
RelayPartial(l) ==
    /\ upstream.state = "open"
    /\ ~upstream.done
    /\ upstream.sent < MaxUpstream
    /\ lineBuffer = NoLine
    /\ lineBuffer' = l
    /\ upstream' = [upstream EXCEPT !.sent = @ + 1, !.deltas = delivered(l)]
    /\ UNCHANGED <<chunkBuffer, chunkTimer, written>>
    /\ UNCHANGED <<streamVars, rwVars, planVars, storeVars, chunkVars, concVars, logVars>>

\* the flush timer fires (215): flushChunkBuffer
RelayTimer ==
    /\ chunkTimer = "pending"
    /\ LET f == flushChunkBuffer(written, chunkBuffer)
       IN  /\ written' = f.written
           /\ chunkBuffer' = f.chunkBuffer
    /\ chunkTimer' = "null"
    /\ UNCHANGED <<upstream, lineBuffer>>
    /\ UNCHANGED <<streamVars, rwVars, planVars, storeVars, chunkVars, concVars, logVars>>

\* resp.body.on('end') (231-256): a text delta left in `buffer` is written on
\* its own, then the sentinel, then res.end()
RelayEnd ==
    /\ upstream.state = "open"
    /\ upstream' = [upstream EXCEPT !.state = "end"]
    /\ written' = (IF lineBuffer.line = "delta"
                   THEN Append(written, ContentDelta(<<lineBuffer.piece>>))
                   ELSE written) \o <<Call("DONE"), Call("END")>>
    /\ UNCHANGED <<lineBuffer, chunkBuffer, chunkTimer>>
    /\ UNCHANGED <<streamVars, rwVars, planVars, storeVars, chunkVars, concVars, logVars>>

\* resp.body.on('error') (258-263): error event, sentinel, res.end()
RelayError ==
    /\ upstream.state = "open"
    /\ upstream' = [upstream EXCEPT !.state = "error"]
    /\ written' = written \o <<Call("error"), Call("DONE"), Call("END")>>
    /\ UNCHANGED <<lineBuffer, chunkBuffer, chunkTimer>>
    /\ UNCHANGED <<streamVars, rwVars, planVars, storeVars, chunkVars, concVars, logVars>>

\* the lines an upstream event can carry; the n-th delta is piece n
UpstreamLines ==
    {DeltaLine([n |-> Len(upstream.deltas) + 1, kind |-> k]) : k \in PieceKinds}
        \cup {OtherLine, DoneLine}

RelayInit ==
    /\ StreamInit
    /\ rwIn = NoRun /\ rwOut = NoRun /\ planIn = NoRun /\ planOut = NoRun
    /\ StoreIdle
    /\ SideIdle
RelayNext ==
    \/ \E ok \in BOOLEAN : RelayRequest(ok)
    \/ \E l \in UpstreamLines : RelayData(l)
    \/ \E l \in UpstreamLines : RelayPartial(l)
    \/ RelayTimer
    \/ RelayEnd
    \/ RelayError
RelaySpec == RelayInit /\ [][RelayNext]_vars

\* the position of the first sentinel in `written`, 0 if there is none
Sentinels == {i \in 1..Len(written) : written[i].type = "DONE"}
FirstDone ==
    IF Sentinels = {} THEN 0
    ELSE CHOOSE i \in Sentinels : \A j \in Sentinels : i <= j

\* piece p is in a content delta written before position i
ForwardedBefore(p, i) ==
    \E j \in 1..(i - 1) :
        /\ written[j].type = "delta"
        /\ \E k \in 1..Len(written[j].content) : written[j].content[k] = p

\* C38: in the buffered relay, under every interleaving of upstream data
\* events, the flush timer and the upstream end event: once the sentinel is
\* written every upstream text delta has been forwarded before it; the
\* sentinel is written at most once, and exactly once when the upstream has
\* ended; and nothing is written after the response has been ended.
C38_RelayForwardsAll ==
    /\ FirstDone > 0 =>
          \A k \in 1..Len(upstream.deltas) : ForwardedBefore(upstream.deltas[k], FirstDone)
    /\ Cardinality(Sentinels) <= 1
    /\ upstream.state \in {"end", "error", "failed"} => Cardinality(Sentinels) = 1
    /\ \A i \in 1..Len(written) : written[i].type = "END" => i = Len(written)

(***************************************************************************)
(* Part 8: the batched logger (src/unnamed/part_008)                       *)
(*                                                                         *)
(* Entries are numbered in the order log accepts them.  A flush takes the  *)
(* whole queue as its batch and is suspended at insertMany; log calls and  *)
(* further flushes (the interval timer, an ERROR entry, shutdown) run      *)
(* meanwhile.  insertMany is unordered: when it rejects, some entries of   *)
(* the batch may have been inserted.                                       *)
(***************************************************************************)
MaxEntries == 3     \* entries accepted by log

Levels == {"ERROR", "WARN", "INFO", "DEBUG"}
levelPriority == [l \in Levels |->
    CASE l = "ERROR" -> 0 [] l = "WARN" -> 1 [] l = "INFO" -> 2 [] l = "DEBUG" -> 3]
\* this.logLevel = process.env.LOG_LEVEL || 'INFO' (9)
thisLogLevel == "INFO"

\* shouldLog (45-47)
shouldLog(level) == levelPriority[level] <= levelPriority[thisLogLevel]

\* the elements of a sequence
Elements(seq) == {seq[i] : i \in 1..Len(seq)}

\* the catch of flush (113-117): the batch goes back to the front of the queue
requeueDropping(batch, queue) == queue
requeue(batch, queue) == batch \o queue

\* flush (105-111) up to its await: nothing when the queue is empty or the
\* logger is not connected; otherwise the queue becomes the batch of an
\* insertMany call.  [logQueue, flights]
startFlush(queue, connected, inFlight) ==
    IF queue = <<>> \/ ~connected
    THEN [logQueue |-> queue, flights |-> inFlight]
    ELSE [logQueue |-> <<>>, flights |-> inFlight \cup {queue}]

\* ensureLogCollection succeeds (21-43)
Connect ==
    /\ ~isConnected
    /\ isConnected' = TRUE
    /\ UNCHANGED <<logQueue, flights, persisted, accepted>>
    /\ UNCHANGED <<streamVars, rwVars, planVars, storeVars, chunkVars, concVars, relayVars>>

\* log (69-103): an entry below the log level is dropped; otherwise it is
\* pushed onto the queue, and an ERROR entry starts a flush at once
Log(level) ==
    /\ accepted < MaxEntries
    /\ IF shouldLog(level)
       THEN /\ accepted' = accepted + 1
            /\ IF level = "ERROR"
               THEN LET f == startFlush(Append(logQueue, accepted + 1), isConnected, flights)
                    IN  logQueue' = f.logQueue /\ flights' = f.flights
               ELSE logQueue' = Append(logQueue, accepted + 1) /\ flights' = flights
       ELSE UNCHANGED <<accepted, logQueue, flights>>
    /\ UNCHANGED <<isConnected, persisted>>
    /\ UNCHANGED <<streamVars, rwVars, planVars, storeVars, chunkVars, concVars, relayVars>>

\* flush called by the interval timer (121-123) or by shutdown (203-206)
Flush ==
    /\ LET f == startFlush(logQueue, isConnected, flights)
       IN  logQueue' = f.logQueue /\ flights' = f.flights
    /\ UNCHANGED <<isConnected, persisted, accepted>>
    /\ UNCHANGED <<streamVars, rwVars, planVars, storeVars, chunkVars, concVars, relayVars>>

\* insertMany resolves (112): the batch is in the collection
FlushOk(batch) ==
    /\ batch \in flights
    /\ flights' = flights \ {batch}
    /\ persisted' = persisted \cup Elements(batch)
    /\ UNCHANGED <<logQueue, isConnected, accepted>>
    /\ UNCHANGED <<streamVars, rwVars, planVars, storeVars, chunkVars, concVars, relayVars>>

\* insertMany rejects (113-117) after inserting the entries of `inserted`;
\* the whole batch is put back
FlushFail(batch, inserted) ==
    /\ batch \in flights
    /\ inserted \subseteq Elements(batch)
    /\ inserted # Elements(batch)
    /\ flights' = flights \ {batch}
    /\ persisted' = persisted \cup inserted
    /\ logQueue' = requeue(batch, logQueue)
    /\ UNCHANGED <<isConnected, accepted>>
    /\ UNCHANGED <<streamVars, rwVars, planVars, storeVars, chunkVars, concVars, relayVars>>

LogInit ==
    /\ StreamInit
    /\ rwIn = NoRun /\ rwOut = NoRun /\ planIn = NoRun /\ planOut = NoRun
    /\ StoreIdle
    /\ SideIdle
LogNext ==
    \/ Connect
    \/ \E level \in Levels : Log(level)
    \/ Flush
    \/ \E batch \in flights : FlushOk(batch)
    \/ \E batch \in flights, inserted \in SUBSET (1..MaxEntries) : FlushFail(batch, inserted)
LogSpec == LogInit /\ [][LogNext]_vars

InFlight == UNION {Elements(batch) : batch \in flights}

C40_QueueInAcceptanceOrder ==
    \A i \in 1..Len(logQueue), j \in 1..Len(logQueue) :
        i < j => logQueue[i] < logQueue[j]

====
